---- MODULE Spec2Model ----
\* Enterprise Architecture Assistant: the serverless handlers (netlify/functions),
\* the response extractors they apply to the vendor's completion text, and the
\* browser-side research runs (js/agents, js/app.js) that call the handlers.
\*
\* Strings are TLA+ strings handled character by character (Len, SubSeq, \o),
\* so a regular expression of the source is modelled by what it matches.
EXTENDS Integers, Sequences, FiniteSets, TLC

VARIABLES
    handler,    \* the serverless function invoked (a key of Handlers), "" when idle
    event,      \* the Netlify event: [httpMethod, body]
    env,        \* process.env: the set of variables that are set, and SEARCH_PROVIDER
    pc,         \* position of the invocation inside exports.handler
    fetches,    \* the upstream requests this invocation has issued, in order
    upstream,   \* the settled upstream response the handler is looking at
    thrown,     \* the message of the error caught by the handler's catch block
    result,     \* what the invocation's promise settled to
    testResults, \* results.testResults / results.tests of the multi-call test handlers
    searchResults, \* ea-api: how many performWebSearch promises have resolved
    replies,    \* the upstream responses this invocation has received, in order
    earlier,    \* an invocation handled before, with the response it got
    orch,       \* the browser's TechnologyResearchOrchestrator (js/agents/technology-research.js)
    agent,      \* the browser's TechnologyResearchAgent
    ui,         \* the page: the research interface or the app's research form
    app         \* the app's modal, its research form and the sessions of ResearchInterface

serverVars == <<handler, event, env, pc, fetches, upstream, thrown, result, testResults,
                searchResults, replies, earlier>>
clientVars == <<orch, agent, ui, app>>
pageVars == <<orch, agent, ui>>
vars == <<handler, event, env, pc, fetches, upstream, thrown, result, testResults,
          searchResults, replies, earlier, orch, agent, ui, app>>

-----------------------------------------------------------------------------
\* JavaScript string built-ins used by the handlers.

Min(a, b) == IF a < b THEN a ELSE b
Max(a, b) == IF a > b THEN a ELSE b

\* s[i] with 1-based i
CharAt(s, i) == SubSeq(s, i, i)

\* whether p occurs in s starting at the 1-based position i
StartsWithAt(s, i, p) ==
    /\ i >= 1
    /\ i + Len(p) - 1 <= Len(s)
    /\ SubSeq(s, i, i + Len(p) - 1) = p

\* String.prototype.includes
Includes(s, p) == \E i \in 1..(Len(s) + 1) : StartsWithAt(s, i, p)

\* the first 1-based position >= from where p occurs in s, 0 when there is none
IndexOfFrom(s, p, from) ==
    LET hits == {i \in from..(Len(s) + 1) : StartsWithAt(s, i, p)}
    IN  IF hits = {} THEN 0 ELSE CHOOSE i \in hits : \A j \in hits : i <= j

\* String.prototype.substring(a, b) with 0-based a <= b
Substring(s, a, b) == SubSeq(s, a + 1, Min(b, Len(s)))

WhiteSpace == {" ", "\n", "\t", "\r"}

\* String.prototype.trim
Trim(s) ==
    LET keep == {i \in 1..Len(s) : CharAt(s, i) \notin WhiteSpace}
    IN  IF keep = {} THEN ""
        ELSE SubSeq(s, CHOOSE i \in keep : \A j \in keep : i <= j,
                       CHOOSE i \in keep : \A j \in keep : i >= j)

UpperLetters == <<"A","B","C","D","E","F","G","H","I","J","K","L","M",
                  "N","O","P","Q","R","S","T","U","V","W","X","Y","Z">>
LowerLetters == <<"a","b","c","d","e","f","g","h","i","j","k","l","m",
                  "n","o","p","q","r","s","t","u","v","w","x","y","z">>

LowerChar(c) ==
    IF \E k \in 1..26 : UpperLetters[k] = c
    THEN LowerLetters[CHOOSE k \in 1..26 : UpperLetters[k] = c]
    ELSE c

\* String.prototype.toLowerCase (also the case folding of a RegExp 'i' flag)
RECURSIVE ToLowerCase(_)
ToLowerCase(s) ==
    IF Len(s) = 0 THEN ""
    ELSE IF Len(s) = 1 THEN LowerChar(s)
    ELSE ToLowerCase(SubSeq(s, 1, Len(s) \div 2))
            \o ToLowerCase(SubSeq(s, Len(s) \div 2 + 1, Len(s)))

-----------------------------------------------------------------------------
\* Response extractors of the four section-based modules
\* (market-analysis, vendor-technology-analysis, maturity-assessment, 5-year-forecast).

SectionLimit == 300
SummaryLimit == 200
FirstParagraphMin == 50

Placeholder == "Analysis content not available."

\* an extractSection without the placeholder: what is matched, or nothing
\* (C9 distinguishes it from the function of the source)
extractSectionOrNothing(analysisText, sectionTitle) ==
    LET header == "**" \o ToLowerCase(sectionTitle) \o "**"
        at     == IndexOfFrom(ToLowerCase(analysisText), header, 1)
        first  == at + Len(header)
        stop   == IndexOfFrom(analysisText, "**", first)
        group  == IF stop = 0 THEN SubSeq(analysisText, first, Len(analysisText))
                              ELSE SubSeq(analysisText, first, stop - 1)
    IN  IF at # 0 /\ group # ""
        THEN Substring(Trim(group), 0, SectionLimit) \o "..."
        ELSE ""

\* extractSection: new RegExp(`\\*\\*${sectionTitle}\\*\\*([\\s\\S]*?)(?=\\*\\*|$)`, 'i').
\* The match is the leftmost occurrence of the header, case folded; the lazy group
\* runs to the next "**" or to the end of the text. An empty group is falsy.
extractSection(analysisText, sectionTitle) ==
    LET header == "**" \o ToLowerCase(sectionTitle) \o "**"
        at     == IndexOfFrom(ToLowerCase(analysisText), header, 1)
        first  == at + Len(header)
        stop   == IndexOfFrom(analysisText, "**", first)
        group  == IF stop = 0 THEN SubSeq(analysisText, first, Len(analysisText))
                              ELSE SubSeq(analysisText, first, stop - 1)
    IN  IF at # 0 /\ group # ""
        THEN Substring(Trim(group), 0, SectionLimit) \o "..."
        ELSE Placeholder

\* extractExecutiveSummary (the same function in the four module files)
extractExecutiveSummary(analysisText) ==
    LET nl == IndexOfFrom(analysisText, "\n", 1)
        firstParagraph == IF nl = 0 THEN analysisText ELSE SubSeq(analysisText, 1, nl - 1)
    IN  IF Len(firstParagraph) > FirstParagraphMin
        THEN Substring(firstParagraph, 0, SummaryLimit) \o "..."
        ELSE Substring(analysisText, 0, SummaryLimit) \o "..."

SectionsOf(analysisText, spec) ==
    [i \in 1..Len(spec) |->
        [title |-> spec[i][1], content |-> extractSection(analysisText, spec[i][2])]]

\* the (title, header searched for) pairs of each module's formatWebSummary
MarketSections ==
    << <<"Market Overview",   "MARKET SIZE AND GROWTH">>,
       <<"Industry Adoption", "INDUSTRY ADOPTION">>,
       <<"Market Drivers",    "MARKET DRIVERS">>,
       <<"Challenges",        "MARKET CHALLENGES">> >>

VendorTechSections ==
    << <<"Implementation Approach",   "VENDOR IMPLEMENTATION APPROACH">>,
       <<"Competitive Position",      "COMPETITIVE POSITIONING">>,
       <<"Enterprise Suitability",    "ENTERPRISE SUITABILITY">>,
       <<"Commercial Considerations", "COMMERCIAL CONSIDERATIONS">>,
       <<"Implementation Guidance",   "IMPLEMENTATION GUIDANCE">>,
       <<"Strategic Assessment",      "STRATEGIC ASSESSMENT">> >>

MaturitySections ==
    << <<"Hype Cycle Position",      "HYPE CYCLE POSITIONING">>,
       <<"Maturity Indicators",      "MATURITY INDICATORS">>,
       <<"Implementation Readiness", "IMPLEMENTATION READINESS">>,
       <<"Adoption Timeline",        "ADOPTION TIMELINE">> >>

ForecastSections ==
    << <<"Technology Evolution",   "TECHNOLOGY EVOLUTION">>,
       <<"Market Projections",     "MARKET PROJECTIONS">>,
       <<"Implementation Roadmap", "IMPLEMENTATION ROADMAP">>,
       <<"Investment Strategy",    "INVESTMENT STRATEGY">>,
       <<"Risks & Opportunities",  "STRATEGIC RISKS">> >>

\* the **HEADER** lines each module's prompt asks the vendor for
marketPrompt ==
    <<"MARKET SIZE AND GROWTH", "INDUSTRY ADOPTION", "MARKET DYNAMICS",
      "MARKET DRIVERS", "MARKET CHALLENGES">>

vendorTechPrompt ==
    <<"VENDOR IMPLEMENTATION APPROACH", "COMPETITIVE POSITIONING",
      "ENTERPRISE SUITABILITY", "COMMERCIAL CONSIDERATIONS",
      "IMPLEMENTATION GUIDANCE", "STRATEGIC ASSESSMENT">>

maturityPrompt ==
    <<"HYPE CYCLE POSITIONING", "MATURITY INDICATORS",
      "IMPLEMENTATION READINESS", "ADOPTION TIMELINE">>

forecastPrompt ==
    <<"TECHNOLOGY EVOLUTION", "MARKET PROJECTIONS", "VENDOR LANDSCAPE EVOLUTION",
      "IMPLEMENTATION ROADMAP", "INVESTMENT STRATEGY",
      "STRATEGIC RISKS & OPPORTUNITIES">>

\* formatWebSummary of each module. The keyword and number tests of a module
\* (metrics, assessment, timeline, chart data) are tests of literal patterns
\* against the text; their values are not represented here.
formatWebSummaryMarket(marketData) ==
    [title    |-> marketData.technology \o " Market Analysis",
     summary  |-> marketData.summary,
     sections |-> SectionsOf(marketData.analysis, MarketSections)]

formatWebSummaryVendorTech(vendorTechData) ==
    [title    |-> vendorTechData.vendor \o " " \o vendorTechData.technology \o " Analysis",
     summary  |-> vendorTechData.summary,
     sections |-> SectionsOf(vendorTechData.analysis, VendorTechSections)]

formatWebSummaryMaturity(maturityData) ==
    [title    |-> maturityData.technology \o " Technology Maturity",
     summary  |-> maturityData.summary,
     sections |-> SectionsOf(maturityData.analysis, MaturitySections)]

formatWebSummaryForecast(forecastData) ==
    [title    |-> forecastData.technology \o " 5-Year Strategic Forecast",
     summary  |-> forecastData.summary,
     sections |-> SectionsOf(forecastData.analysis, ForecastSections)]

-----------------------------------------------------------------------------
\* The serverless functions. Each is described by what its exports.handler does
\* between the CORS preamble and the upstream call.
\*   allowed    the methods that pass the 405 check (OPTIONS is answered before it)
\*   parsesBody whether the try block starts with JSON.parse(event.body)
\*   required   the body fields that must be truthy (else 400)
\*   keyVar     the API key variable read from process.env
\*   checksKey  whether an unset key is answered with 500 before the fetch
\*   calls      the number of upstream requests of a complete run
\*   onNotOk    "passthrough": statusCode = response.status; "throw": a thrown
\*              Error; "record": noted in the test results, the run goes on
\*   errorAs    "json": errorData.error?.message; "text": the raw body text
\*   dflt       the "|| 'Unknown error'" default of details, "" when there is none
\*   catchReads "error" or "tryLocal": a const declared inside the try block
\*   notOkLabel the prefix of the message built from response.status
\*   catchLabel the message of the catch block's body; catchShape "prefix" appends
\*              error.message to it, "details" puts error.message in details
\*   flagsSuccess whether the non-2xx and catch bodies carry success: false

Methods == {"OPTIONS", "POST", "GET", "DELETE"}
NoCheck == Methods \ {"OPTIONS"}

MarketAnalysis ==
    [name |-> "market-analysis", module |-> "market", allowed |-> {"POST"},
     parsesBody |-> TRUE, required |-> {"technology"},
     vendor |-> "openai", keyVar |-> "OPENAI_API_KEY", checksKey |-> TRUE, calls |-> 1,
     onNotOk |-> "passthrough", errorAs |-> "json", dflt |-> "",
     catchReads |-> "error", notOkLabel |-> "Market analysis failed: ",
     catchLabel |-> "Market analysis failed: ", catchShape |-> "prefix", flagsSuccess |-> TRUE]

VendorTechnologyAnalysis ==
    [name |-> "vendor-technology-analysis", module |-> "vendorTech", allowed |-> {"POST"},
     parsesBody |-> TRUE, required |-> {"vendor", "technology"},
     vendor |-> "openai", keyVar |-> "OPENAI_API_KEY", checksKey |-> TRUE, calls |-> 1,
     onNotOk |-> "passthrough", errorAs |-> "json", dflt |-> "",
     catchReads |-> "error", notOkLabel |-> "Vendor technology analysis failed: ",
     catchLabel |-> "Vendor technology analysis failed: ", catchShape |-> "prefix", flagsSuccess |-> TRUE]

MaturityAssessment ==
    [name |-> "maturity-assessment", module |-> "maturity", allowed |-> {"POST"},
     parsesBody |-> TRUE, required |-> {"technology"},
     vendor |-> "openai", keyVar |-> "OPENAI_API_KEY", checksKey |-> TRUE, calls |-> 1,
     onNotOk |-> "passthrough", errorAs |-> "json", dflt |-> "",
     catchReads |-> "error", notOkLabel |-> "Maturity assessment failed: ",
     catchLabel |-> "Maturity assessment failed: ", catchShape |-> "prefix", flagsSuccess |-> TRUE]

FiveYearForecast ==
    [name |-> "5-year-forecast", module |-> "forecast", allowed |-> {"POST"},
     parsesBody |-> TRUE, required |-> {"technology"},
     vendor |-> "openai", keyVar |-> "OPENAI_API_KEY", checksKey |-> TRUE, calls |-> 1,
     onNotOk |-> "passthrough", errorAs |-> "json", dflt |-> "",
     catchReads |-> "error", notOkLabel |-> "5-year forecast failed: ",
     catchLabel |-> "5-year forecast failed: ", catchShape |-> "prefix", flagsSuccess |-> TRUE]

SupplierQuad ==
    [name |-> "supplier-quad", module |-> "quad", allowed |-> {"POST"},
     parsesBody |-> TRUE, required |-> {"technology"},
     vendor |-> "openai", keyVar |-> "OPENAI_API_KEY", checksKey |-> FALSE, calls |-> 1,
     onNotOk |-> "throw", errorAs |-> "json", dflt |-> "",
     catchReads |-> "error", notOkLabel |-> "OpenAI API error: ",
     catchLabel |-> "Failed to complete supplier quadrant analysis", catchShape |-> "details", flagsSuccess |-> TRUE]

ClaudeMarketAnalysis ==
    [name |-> "market-analysis (Claude)", module |-> "claudeMarket", allowed |-> {"POST"},
     parsesBody |-> TRUE, required |-> {"technology"},
     vendor |-> "anthropic", keyVar |-> "CLAUDE_API_KEY", checksKey |-> TRUE, calls |-> 1,
     onNotOk |-> "passthrough", errorAs |-> "json", dflt |-> "",
     catchReads |-> "tryLocal", notOkLabel |-> "Claude API error: ",
     catchLabel |-> "Market analysis failed: ", catchShape |-> "prefix", flagsSuccess |-> TRUE]

\* The single-call and multi-call test functions.
\* claude-speed-test and gpt4o-complexity-test run three tests in a row.
NumTests == 3

ClaudeSimplifiedTest ==
    [name |-> "claude-simplified-test", module |-> "test", allowed |-> {"POST", "GET"},
     parsesBody |-> FALSE, required |-> {},
     vendor |-> "anthropic", keyVar |-> "CLAUDE_API_KEY", checksKey |-> TRUE, calls |-> 1,
     onNotOk |-> "passthrough", errorAs |-> "json", dflt |-> "Unknown error",
     catchReads |-> "tryLocal", notOkLabel |-> "Claude API error: ",
     catchLabel |-> "Simplified test failed: ", catchShape |-> "prefix", flagsSuccess |-> TRUE]

ClaudeSimpleTest ==
    [name |-> "claude-simple-test", module |-> "test", allowed |-> {"POST", "GET"},
     parsesBody |-> FALSE, required |-> {},
     vendor |-> "anthropic", keyVar |-> "CLAUDE_API_KEY", checksKey |-> TRUE, calls |-> 1,
     onNotOk |-> "passthrough", errorAs |-> "json", dflt |-> "Unknown error",
     catchReads |-> "tryLocal", notOkLabel |-> "Claude API error: ",
     catchLabel |-> "Claude test failed: ", catchShape |-> "prefix", flagsSuccess |-> TRUE]

ClaudeComprehensiveTest ==
    [name |-> "claude-comprehensive-test", module |-> "test", allowed |-> {"POST", "GET"},
     parsesBody |-> FALSE, required |-> {},
     vendor |-> "anthropic", keyVar |-> "CLAUDE_API_KEY", checksKey |-> TRUE, calls |-> 1,
     onNotOk |-> "passthrough", errorAs |-> "json", dflt |-> "Unknown error",
     catchReads |-> "tryLocal", notOkLabel |-> "Claude API error: ",
     catchLabel |-> "Claude test failed: ", catchShape |-> "prefix", flagsSuccess |-> TRUE]

GeminiSpeedTest ==
    [name |-> "gemini-speed-test", module |-> "test", allowed |-> {"POST", "GET"},
     parsesBody |-> FALSE, required |-> {},
     vendor |-> "gemini", keyVar |-> "GEMINI_API_KEY", checksKey |-> TRUE, calls |-> 1,
     onNotOk |-> "passthrough", errorAs |-> "text", dflt |-> "",
     catchReads |-> "error", notOkLabel |-> "Gemini API error: ",
     catchLabel |-> "Speed test failed: ", catchShape |-> "prefix", flagsSuccess |-> FALSE]

GeminiDiscovery ==
    [name |-> "gemini-discovery", module |-> "test", allowed |-> {"POST", "GET"},
     parsesBody |-> FALSE, required |-> {},
     vendor |-> "gemini", keyVar |-> "GEMINI_API_KEY", checksKey |-> TRUE, calls |-> 2,
     onNotOk |-> "passthrough", errorAs |-> "text", dflt |-> "",
     catchReads |-> "tryLocal", notOkLabel |-> "Failed to list models: ",
     catchLabel |-> "Discovery test failed: ", catchShape |-> "prefix", flagsSuccess |-> FALSE]

ChatGPTTest ==
    [name |-> "chatgpt-test", module |-> "test", allowed |-> {"POST", "GET"},
     parsesBody |-> FALSE, required |-> {},
     vendor |-> "openai", keyVar |-> "OPENAI_API_KEY", checksKey |-> TRUE, calls |-> 1,
     onNotOk |-> "passthrough", errorAs |-> "json", dflt |-> "Unknown error",
     catchReads |-> "tryLocal", notOkLabel |-> "ChatGPT API error: ",
     catchLabel |-> "ChatGPT test failed: ", catchShape |-> "prefix", flagsSuccess |-> TRUE]

MaturityAssessmentTest ==
    [name |-> "maturity-assessment-test", module |-> "test", allowed |-> NoCheck,
     parsesBody |-> FALSE, required |-> {},
     vendor |-> "openai", keyVar |-> "OPENAI_API_KEY", checksKey |-> TRUE, calls |-> 1,
     onNotOk |-> "passthrough", errorAs |-> "json", dflt |-> "",
     catchReads |-> "error", notOkLabel |-> "OpenAI API error: ",
     catchLabel |-> "Maturity assessment test failed: ", catchShape |-> "prefix", flagsSuccess |-> TRUE]

VendorAnalysisTest ==
    [name |-> "vendor-analysis-test", module |-> "test", allowed |-> NoCheck,
     parsesBody |-> FALSE, required |-> {},
     vendor |-> "openai", keyVar |-> "OPENAI_API_KEY", checksKey |-> TRUE, calls |-> 1,
     onNotOk |-> "passthrough", errorAs |-> "json", dflt |-> "",
     catchReads |-> "error", notOkLabel |-> "OpenAI API error: ",
     catchLabel |-> "Vendor analysis test failed: ", catchShape |-> "prefix", flagsSuccess |-> TRUE]

FiveYearForecastTest ==
    [name |-> "5-year-forecast-test", module |-> "test", allowed |-> NoCheck,
     parsesBody |-> FALSE, required |-> {},
     vendor |-> "openai", keyVar |-> "OPENAI_API_KEY", checksKey |-> TRUE, calls |-> 1,
     onNotOk |-> "passthrough", errorAs |-> "json", dflt |-> "",
     catchReads |-> "error", notOkLabel |-> "OpenAI API error: ",
     catchLabel |-> "5-year forecast test failed: ", catchShape |-> "prefix", flagsSuccess |-> TRUE]

ClaudeSpeedTest ==
    [name |-> "claude-speed-test", module |-> "test", allowed |-> {"POST", "GET"},
     parsesBody |-> FALSE, required |-> {},
     vendor |-> "anthropic", keyVar |-> "CLAUDE_API_KEY", checksKey |-> TRUE, calls |-> NumTests,
     onNotOk |-> "record", errorAs |-> "json", dflt |-> "Unknown error",
     catchReads |-> "tryLocal", notOkLabel |-> "HTTP ",
     catchLabel |-> "Speed discovery failed: ", catchShape |-> "prefix", flagsSuccess |-> FALSE]

Gpt4oComplexityTest ==
    [name |-> "gpt4o-complexity-test", module |-> "test", allowed |-> {"POST", "GET"},
     parsesBody |-> FALSE, required |-> {},
     vendor |-> "openai", keyVar |-> "OPENAI_API_KEY", checksKey |-> TRUE, calls |-> NumTests,
     onNotOk |-> "record", errorAs |-> "json", dflt |-> "",
     catchReads |-> "error", notOkLabel |-> "API error: ",
     catchLabel |-> "Complexity test failed: ", catchShape |-> "prefix", flagsSuccess |-> TRUE]

Handlers ==
    {MarketAnalysis, VendorTechnologyAnalysis, MaturityAssessment, FiveYearForecast,
     SupplierQuad, ClaudeMarketAnalysis,
     ClaudeSimplifiedTest, ClaudeSimpleTest, ClaudeComprehensiveTest, GeminiSpeedTest,
     GeminiDiscovery, ChatGPTTest, MaturityAssessmentTest, VendorAnalysisTest,
     FiveYearForecastTest, ClaudeSpeedTest, Gpt4oComplexityTest}

AnalysisHandlers == {h \in Handlers : h.module # "test"}

\* ea-api: one function routing on the body's endpoint field to the connection
\* test, the web search, the Claude call and the search-then-Claude research
EaApi ==
    [name |-> "ea-api", module |-> "ea-api", allowed |-> {"POST"},
     parsesBody |-> TRUE, required |-> {},
     vendor |-> "anthropic", keyVar |-> "CLAUDE_API_KEY", checksKey |-> FALSE, calls |-> 1,
     onNotOk |-> "throw", errorAs |-> "json", dflt |-> "",
     catchReads |-> "error", notOkLabel |-> "Claude API error: ",
     catchLabel |-> "Internal server error: ", catchShape |-> "prefix", flagsSuccess |-> FALSE]

AllHandlers == Handlers \cup {EaApi}

H == CHOOSE h \in AllHandlers : h.name = handler

-----------------------------------------------------------------------------
\* Requests, environments and upstream responses.

Undefined == "undefined"
Truthy(v) == v \notin {Undefined, ""}

BodyFields == {"technology", "vendor", "endpoint", "prompt", "query", "researchPhase"}

\* event.body: absent (null, undefined or ''), text that is not JSON, or a JSON object
NoBody == [kind |-> "none", json |-> [k \in BodyFields |-> Undefined]]
MalformedBody == [kind |-> "malformed", json |-> [k \in BodyFields |-> Undefined]]
JsonBody(f) ==
    [kind |-> "object",
     json |-> [k \in BodyFields |-> IF k \in DOMAIN f THEN f[k] ELSE Undefined]]

\* JSON.parse(event.body) throws on a body that is not JSON; on a null body it
\* returns null and the destructuring of the result throws
ParseThrows(body) == body.kind # "object"

ParseMessage(body) ==
    IF body.kind = "malformed" THEN "Unexpected token in JSON"
    ELSE "Cannot destructure property of null"

AnalysisBodies ==
    {NoBody, MalformedBody,
     JsonBody([endpoint |-> Undefined]),
     JsonBody([technology |-> ""]),
     JsonBody([technology |-> "Zero Trust Security"]),
     JsonBody([vendor |-> "Okta"]),
     JsonBody([vendor |-> "Okta", technology |-> "Zero Trust Security"])}

ApiKeys == {"OPENAI_API_KEY", "CLAUDE_API_KEY", "GEMINI_API_KEY"}
SearchKeys == {"BING_SEARCH_API_KEY", "SERPAPI_API_KEY", "BRAVE_SEARCH_API_KEY"}

ErrorStatuses == {401, 429, 503}

\* what a fetch settles to
NetworkError ==
    [kind |-> "rejected", status |-> 0, body |-> "none", text |-> "",
     message |-> "request failed, reason: socket hang up"]

ErrorResponses ==
    {[kind |-> "notOk", status |-> st, body |-> "errorJson",
      text |-> "{error:{message:Rate limit exceeded}}", message |-> "Rate limit exceeded"]
        : st \in ErrorStatuses}
    \cup
    {[kind |-> "notOk", status |-> 503, body |-> "notJson",
      text |-> "<html>Service Unavailable</html>", message |-> Undefined]}

\* a 2xx response: the completion JSON with text T, the completion JSON with
\* content null, JSON of another shape, or a body that is not JSON
Completion(T) ==
    [kind |-> "ok", status |-> 200, body |-> "completion", text |-> T, message |-> Undefined]

BrokenOkResponses(vendor) ==
    {[kind |-> "ok", status |-> 200, body |-> b, text |-> "", message |-> Undefined]
        : b \in IF vendor = "openai" THEN {"otherJson", "notJson", "nullContent"}
                ELSE {"otherJson", "notJson"}}

\* the error thrown while reading a 2xx response, "" when none is thrown
ReadThrows(h, reply) ==
    CASE reply.body = "notJson"   -> "invalid json response body"
      [] reply.body = "otherJson" ->
            IF h.vendor = "gemini" THEN ""
            ELSE "Cannot read properties of undefined (reading '0')"
      [] reply.body = "nullContent" ->
            "Cannot read properties of null (reading 'substring')"
      [] OTHER -> ""

-----------------------------------------------------------------------------
\* supplier-quad: vendor extraction from the analysis text.

Letters == {UpperLetters[k] : k \in 1..26} \cup {LowerLetters[k] : k \in 1..26}
IsLetter(c) == c \in Letters
Digits == {"0", "1", "2", "3", "4", "5", "6", "7", "8", "9"}
IsDigit(c) == c \in Digits

\* the character class [A-Za-z\s&\.]
NameChars == Letters \cup WhiteSpace \cup {"&", "."}
IsNameChar(c) == c \in NameChars

\* the last position of the longest run of characters of a class that starts
\* at position i (i - 1 when the run is empty)
RunEnd(s, i, class) ==
    IF \A j \in i..Len(s) : CharAt(s, j) \in class THEN Len(s)
    ELSE (CHOOSE j \in i..Len(s) :
            CharAt(s, j) \notin class /\ \A k \in i..(j - 1) : CharAt(s, k) \in class) - 1

\* /\*\*([A-Za-z\s&\.]+)\*\*/ matches at position i
BoldAt(s, i) ==
    /\ StartsWithAt(s, i, "**")
    /\ LET j == RunEnd(s, i + 2, NameChars)
       IN  j >= i + 2 /\ StartsWithAt(s, j + 1, "**")

\* /\d+\.\s+[A-Za-z]/ matches at position i
NumberedAt(s, i) ==
    /\ i >= 1 /\ i <= Len(s)
    /\ LET d == RunEnd(s, i, Digits)
           w == RunEnd(s, d + 2, WhiteSpace)
       IN  /\ d >= i
           /\ StartsWithAt(s, d + 1, ".")
           /\ w >= d + 2
           /\ w < Len(s) /\ IsLetter(CharAt(s, w + 1))

\* the least element of a set of positions, and its k-th element in ascending order
Least(S) == CHOOSE i \in S : \A j \in S : i <= j
NthOf(S, k) == CHOOSE i \in S : Cardinality({j \in S : j < i}) = k - 1

\* String.prototype.split with a lookahead: the text is cut before every
\* position after the first where the lookahead matches; the pieces of s cut
\* before each position of cuts
SplitAt(s, cuts) ==
    [k \in 1..(Cardinality(cuts) + 1) |->
        SubSeq(s, IF k = 1 THEN 1 ELSE NthOf(cuts, k - 1),
                  IF k = Cardinality(cuts) + 1 THEN Len(s) ELSE NthOf(cuts, k) - 1)]

\* the four name patterns, each giving match[1], "" when it does not match
BoldGroup(section, hits) ==
    IF hits = {} THEN ""
    ELSE SubSeq(section, Least(hits) + 2, RunEnd(section, Least(hits) + 2, NameChars))

NameFromBold(section) ==
    BoldGroup(section, {i \in 1..Len(section) : BoldAt(section, i)})

\* /^\d+\.\s+([A-Za-z\s&\.]+)/ : \s+ gives back its last character when nothing
\* else is left for the group
NameFromNumber(section) ==
    LET d == RunEnd(section, 1, Digits)
        w == RunEnd(section, d + 2, WhiteSpace)
        r == RunEnd(section, d + 2, NameChars)
    IN  IF d >= 1 /\ StartsWithAt(section, d + 1, ".") /\ w >= d + 2 /\ r >= d + 3
        THEN SubSeq(section, IF r > w THEN w + 1 ELSE w, r)
        ELSE ""

\* /^([A-Za-z\s&\.]+):/
NameFromColon(section) ==
    LET r == RunEnd(section, 1, NameChars)
    IN  IF r >= 1 /\ StartsWithAt(section, r + 1, ":")
        THEN SubSeq(section, 1, r) ELSE ""

\* /([A-Za-z\s&\.]+)\s*-/ : the leftmost run of name characters that ends at a
\* "-" (the leftmost match begins where a run begins)
DashGroup(section, hits) ==
    IF hits = {} THEN ""
    ELSE SubSeq(section, Least(hits), RunEnd(section, Least(hits), NameChars))

NameFromDash(section) ==
    DashGroup(section,
        {i \in 1..Len(section) :
            /\ IsNameChar(CharAt(section, i))
            /\ i = 1 \/ ~IsNameChar(CharAt(section, i - 1))
            /\ StartsWithAt(section, RunEnd(section, i, NameChars) + 1, "-")})

\* the loop over patterns: the first pattern that matches decides
FirstMatch(bold, numbered, colon, dash) ==
    IF bold # "" THEN bold
    ELSE IF numbered # "" THEN numbered
    ELSE IF colon # "" THEN colon
    ELSE dash

VendorNameOf(section) ==
    Trim(FirstMatch(NameFromBold(section), NameFromNumber(section),
                    NameFromColon(section), NameFromDash(section)))

NameMin == 2
NameMax == 50
HeaderSectionMax == 50
MaxVendors == 12

extractQuadrantFromText(text) ==
    LET lower == ToLowerCase(text)
    IN  IF Includes(lower, "leader") THEN "Leaders"
        ELSE IF Includes(lower, "challenger") THEN "Challengers"
        ELSE IF Includes(lower, "visionary") THEN "Visionaries"
        ELSE "Niche Players"

Clamp(lo, hi, x) == Max(lo, Min(hi, x))

baseScores(quadrant) ==
    CASE quadrant = "Leaders"       -> [execute |-> 80, vision |-> 80]
      [] quadrant = "Challengers"   -> [execute |-> 75, vision |-> 60]
      [] quadrant = "Visionaries"   -> [execute |-> 60, vision |-> 75]
      [] quadrant = "Niche Players" -> [execute |-> 55, vision |-> 55]
      [] OTHER                      -> [execute |-> 60, vision |-> 60]

\* Math.random() * 20 - 10 lies in [-10, 10); the values tried
Variances == {-8, 0, 9}

\* generateVendorScores; the text argument is not read
generateVendorScores(quadrant, variance) ==
    LET base == baseScores(quadrant)
        e == base.execute + variance
        v == base.vision + variance
    IN  [execute |-> Clamp(30, 95, e),
         vision  |-> Clamp(30, 95, v),
         detailed |->
            [productCapability   |-> Clamp(40, 90, e),
             reliabilityAndOps   |-> Clamp(40, 90, e - 5),
             customerExperience  |-> Clamp(40, 90, e + 5),
             marketTraction      |-> Clamp(40, 90, e),
             financialViability  |-> Clamp(40, 90, e + 10),
             ecosystemPartners   |-> Clamp(40, 90, e - 5),
             innovationRoadmap   |-> Clamp(40, 90, v),
             marketUnderstanding |-> Clamp(40, 90, v + 5),
             platformStrategy    |-> Clamp(40, 90, v),
             goToMarket          |-> Clamp(40, 90, v - 5),
             standardsCompliance |-> Clamp(40, 90, v - 10),
             geographicStrategy  |-> Clamp(40, 90, v)]]

\* the k-th value drawn from Math.random: the stream rnd is reused cyclically
Drawn(rnd, k) == rnd[((k - 1) % Len(rnd)) + 1]

VendorRecord(name, quadrant, variance, summary) ==
    LET scores == generateVendorScores(quadrant, variance)
    IN  [name |-> name, quadrant |-> quadrant,
         abilityToExecute |-> scores.execute,
         completenessOfVision |-> scores.vision,
         scores |-> scores.detailed,
         summary |-> summary]

commonVendors(technology) ==
    CASE technology = "Zero Trust" ->
            << <<"Zscaler", "Leaders">>, <<"Palo Alto Networks", "Leaders">>,
               <<"CrowdStrike", "Leaders">>, <<"Microsoft", "Challengers">>,
               <<"Cisco", "Challengers">>, <<"Okta", "Visionaries">>,
               <<"SentinelOne", "Visionaries">>, <<"Fortinet", "Niche Players">> >>
      [] technology = "AIOps" ->
            << <<"Splunk", "Leaders">>, <<"Datadog", "Leaders">>,
               <<"New Relic", "Challengers">>, <<"Dynatrace", "Leaders">>,
               <<"AppDynamics", "Challengers">>, <<"Moogsoft", "Visionaries">>,
               <<"BigPanda", "Niche Players">> >>
      [] OTHER ->
            << <<"Vendor A", "Leaders">>, <<"Vendor B", "Challengers">>,
               <<"Vendor C", "Visionaries">>, <<"Vendor D", "Niche Players">> >>

createFallbackVendors(analysisText, rnd) ==
    LET technology == IF Includes(analysisText, "Zero Trust") THEN "Zero Trust"
                      ELSE IF Includes(analysisText, "AIOps") THEN "AIOps"
                      ELSE "Technology"
        vendorSet == commonVendors(technology)
    IN  [k \in 1..Len(vendorSet) |->
            VendorRecord(vendorSet[k][1], vendorSet[k][2], Drawn(rnd, k),
                vendorSet[k][1] \o " analysis based on market positioning and capabilities.")]

\* vendorName && vendorName.length > 2 && vendorName.length < 50
NameAccepted(vendorName) == Len(vendorName) > NameMin /\ Len(vendorName) < NameMax

\* whether a section of the split text yields a vendor
YieldsVendor(vendorSections, i) ==
    /\ ~(i = 1 /\ Len(vendorSections[i]) < HeaderSectionMax)
    /\ NameAccepted(VendorNameOf(vendorSections[i]))

\* the two ways of cutting the text into vendor sections
VendorSections(analysisText) ==
    IF \E i \in 1..Len(analysisText) : BoldAt(analysisText, i)
    THEN SplitAt(analysisText, {i \in 2..Len(analysisText) : BoldAt(analysisText, i)})
    ELSE SplitAt(analysisText, {i \in 2..Len(analysisText) : NumberedAt(analysisText, i)})

\* the record pushed for a section
VendorOf(section, variance) ==
    VendorRecord(VendorNameOf(section), extractQuadrantFromText(section), variance,
                 Trim(Substring(section, 0, SummaryLimit)) \o "...")

\* a variant that returns every vendor found
VendorsKeptUncut(analysisText, vendorSections, kept, rnd) ==
    IF kept = {} THEN createFallbackVendors(analysisText, rnd)
    ELSE [k \in 1..Cardinality(kept) |->
            VendorOf(vendorSections[NthOf(kept, k)], Drawn(rnd, k))]

\* the vendors of the sections kept, cut to the first twelve
VendorsKept(analysisText, vendorSections, kept, rnd) ==
    IF kept = {} THEN createFallbackVendors(analysisText, rnd)
    ELSE [k \in 1..Min(MaxVendors, Cardinality(kept)) |->
            VendorOf(vendorSections[NthOf(kept, k)], Drawn(rnd, k))]

VendorsFrom(analysisText, vendorSections, rnd) ==
    IF Len(vendorSections) < 2 THEN createFallbackVendors(analysisText, rnd)
    ELSE VendorsKept(analysisText, vendorSections,
            {i \in 1..Len(vendorSections) : YieldsVendor(vendorSections, i)}, rnd)

extractVendorScores(analysisText, rnd) ==
    VendorsFrom(analysisText, VendorSections(analysisText), rnd)

\* generateQuadrantChartData: one point per vendor, x the vision, y the execution
generateQuadrantChartData(vendors) ==
    [type |-> "scatter",
     data |-> [k \in 1..Len(vendors) |->
                [x |-> vendors[k].completenessOfVision,
                 y |-> vendors[k].abilityToExecute,
                 label |-> vendors[k].name,
                 quadrant |-> vendors[k].quadrant]]]

\* vendors.sort((a, b) => (b.abilityToExecute + b.completenessOfVision) - (a...)):
\* descending by the sum of the axes, stable, and in place: the list the handler
\* returns is the sorted one
SortedByTotal(vendors) ==
    LET total(i) == vendors[i].abilityToExecute + vendors[i].completenessOfVision
        rank(i) == 1 + Cardinality({j \in 1..Len(vendors) :
                        total(j) > total(i) \/ (total(j) = total(i) /\ j < i)})
    IN  [k \in 1..Len(vendors) |-> vendors[CHOOSE i \in 1..Len(vendors) : rank(i) = k]]

RECURSIVE Join(_)
Join(names) ==
    IF names = <<>> THEN ""
    ELSE IF Len(names) = 1 THEN names[1]
    ELSE names[1] \o ", " \o Join(SubSeq(names, 2, Len(names)))

\* vendors.filter(v => v.quadrant === quadrant).map(v => v.name)
NamesIn(vendors, quadrant) ==
    LET kept == {i \in 1..Len(vendors) : vendors[i].quadrant = quadrant}
    IN  [k \in 1..Cardinality(kept) |->
            vendors[NthOf(kept, k)].name]

QuadrantContent(vendors, quadrant) ==
    IF NamesIn(vendors, quadrant) = <<>> THEN "None identified"
    ELSE Join(NamesIn(vendors, quadrant))

TopVendors == 5

\* formatQuadrantSummary, applied to the list it has just sorted
formatQuadrantSummary(analysisText, sorted) ==
    [title |-> "Supplier Quadrant Analysis",
     overview |-> Substring(analysisText, 0, SectionLimit) \o "...",
     quadrantDistribution |->
        [q \in {sorted[i].quadrant : i \in 1..Len(sorted)} |->
            Cardinality({i \in 1..Len(sorted) : sorted[i].quadrant = q})],
     topVendors |->
        [k \in 1..Min(TopVendors, Len(sorted)) |->
            [name |-> sorted[k].name, quadrant |-> sorted[k].quadrant]],
     sections |->
        << [title |-> "Market Leaders", content |-> QuadrantContent(sorted, "Leaders")],
           [title |-> "Strong Challengers", content |-> QuadrantContent(sorted, "Challengers")],
           [title |-> "Visionary Players", content |-> QuadrantContent(sorted, "Visionaries")] >>]

\* the data object of supplier-quad's 200 response (metrics, a count of the bold
\* names with three literals, is not represented)
QuadrantDataOf(technology, analysisText, vendorData) ==
    [analysis |-> analysisText,
     vendors |-> SortedByTotal(vendorData),
     chartData |-> generateQuadrantChartData(vendorData),
     webSummary |-> formatQuadrantSummary(analysisText, SortedByTotal(vendorData)),
     metadata |-> [technology |-> technology,
                   methodology |-> "Magic Quadrant-style weighted scoring"]]

QuadrantData(technology, analysisText, rnd) ==
    QuadrantDataOf(technology, analysisText, extractVendorScores(analysisText, rnd))

-----------------------------------------------------------------------------
\* What an invocation settles to. A JSON body is a record; JSON.stringify drops
\* the keys whose value is undefined.

Pending == [outcome |-> "pending", statusCode |-> 0, body |-> [text |-> ""]]

\* const headers = {...}: the same object goes into every return of a handler
AllowMethods(h) ==
    IF h.name \in {"supplier-quad", "ea-api", "market-analysis (Claude)"}
    THEN "POST, OPTIONS" ELSE "POST, GET, OPTIONS"

CorsHeaders(h) ==
    [k \in {"Access-Control-Allow-Origin", "Access-Control-Allow-Headers",
            "Access-Control-Allow-Methods"} |->
        CASE k = "Access-Control-Allow-Origin"  -> "*"
          [] k = "Access-Control-Allow-Headers" -> "Content-Type"
          [] OTHER                              -> AllowMethods(h)]

\* a return that leaves the headers out (C11 distinguishes it from the returns
\* of the source)
RespondWithoutHeaders(status, body) ==
    [outcome |-> "resolved", statusCode |-> status, body |-> body,
     headers |-> [k \in {} |-> ""]]

\* return { statusCode, headers, body: JSON.stringify(body) }
Respond(status, body) ==
    [outcome |-> "resolved", statusCode |-> status, body |-> body,
     headers |-> CorsHeaders(H)]
Reject(name, message) ==
    [outcome |-> "rejected", statusCode |-> 0, body |-> [name |-> name, message |-> message]]

Flagged(h, body) == IF h.flagsSuccess THEN [success |-> FALSE] @@ body ELSE body
WithDetails(body, details) ==
    IF details = Undefined THEN body ELSE body @@ [details |-> details]

RequiredMessage(h) ==
    CASE h.name = "vendor-technology-analysis" -> "Both vendor and technology parameters required"
      [] h.name = "supplier-quad" -> "Technology parameter is required"
      [] OTHER -> "Technology parameter required"

KeyMessage(h) ==
    CASE h.vendor = "openai"    -> "OpenAI API key not configured"
      [] h.vendor = "anthropic" -> "Claude API key not configured"
      [] h.vendor = "gemini"    -> "Gemini API key not configured"

\* details of a non-2xx response: errorData.error?.message (with the handler's
\* default, if it has one) or, for the Gemini handlers, the raw body text
VendorDetails(h, reply) ==
    IF h.errorAs = "text" THEN reply.text
    ELSE IF reply.message # Undefined THEN reply.message
    ELSE IF h.dflt # "" THEN h.dflt
    ELSE Undefined

NotOkBody(h, reply) ==
    WithDetails(Flagged(h, [error |-> h.notOkLabel \o ToString(reply.status)]),
                VendorDetails(h, reply))

CatchBody(h, message) ==
    IF h.catchShape = "details"
    THEN [success |-> FALSE, error |-> h.catchLabel, details |-> message]
    ELSE Flagged(h, [error |-> h.catchLabel \o message])

\* the body of the 200 response of each module for the completion text T
SuccessBody(h, json, T, rnd) ==
    LET summary == extractExecutiveSummary(T)
        wrap(module, data, webSummary) ==
            [success |-> TRUE, module |-> module, technology |-> json.technology,
             data |-> data,
             artifacts |-> [webSummary |-> webSummary, downloadReady |-> TRUE]]
        techData == [technology |-> json.technology, analysis |-> T, summary |-> summary]
        vendorTechData == [vendor |-> json.vendor] @@ techData
    IN  CASE h.module = "market" ->
                wrap("market-analysis", techData, formatWebSummaryMarket(techData))
          [] h.module = "vendorTech" ->
                [vendor |-> json.vendor] @@
                wrap("vendor-technology-analysis", vendorTechData,
                     formatWebSummaryVendorTech(vendorTechData))
          [] h.module = "maturity" ->
                wrap("maturity-assessment", techData, formatWebSummaryMaturity(techData))
          [] h.module = "forecast" ->
                wrap("5-year-forecast", techData, formatWebSummaryForecast(techData))
          [] h.module = "quad" ->
                [success |-> TRUE, data |-> QuadrantData(json.technology, T, rnd)]
          [] h.module = "claudeMarket" ->
                [success |-> TRUE, analysisType |-> "market",
                 technology |-> json.technology, content |-> T]
          [] OTHER ->
                [success |-> TRUE,
                 text |-> IF h.vendor = "gemini" /\ T = ""
                          THEN "No response generated" ELSE T]

-----------------------------------------------------------------------------
\* Completion texts. A reply to a section module is an opening paragraph
\* followed, for each header of the module's prompt in order, by either nothing
\* or the header with a paragraph under it.

Openings == {"", "An executive overview of the technology for enterprise architects.\n\n"}

HeaderBlock(header) ==
    "**" \o header \o "**\n" \o "Findings on " \o ToLowerCase(header) \o ".\n\n"

RECURSIVE SectionTexts(_)
SectionTexts(headers) ==
    IF headers = <<>> THEN {""}
    ELSE {block \o rest : block \in {"", HeaderBlock(Head(headers))},
                          rest \in SectionTexts(Tail(headers))}

RECURSIVE AllBlocks(_)
AllBlocks(headers) ==
    IF headers = <<>> THEN ""
    ELSE HeaderBlock(Head(headers)) \o AllBlocks(Tail(headers))

PromptOf(h) ==
    CASE h.module \in {"market", "claudeMarket"} -> marketPrompt
      [] h.module = "vendorTech" -> vendorTechPrompt
      [] h.module = "maturity"   -> maturityPrompt
      [] h.module = "forecast"   -> forecastPrompt
      [] OTHER                   -> <<>>

\* whether the text carries the header as the prompt writes it
HasHeader(text, header) == Includes(text, "**" \o header \o "**")

Plain == "Zero Trust adoption keeps growing across regulated industries."

QuadrantSample ==
    "Vendor overview.\n**Zscaler** - a leader in execution.\n**Okta** - a visionary."

\* the few texts used where the control flow of the handlers is explored
SampleTexts(h) ==
    CASE h.module = "quad" -> {Plain, QuadrantSample}
      [] h.module = "test" -> {Plain}
      [] OTHER -> {Plain, AllBlocks(PromptOf(h)), ToLowerCase(AllBlocks(PromptOf(h)))}

SampleReplies(h) ==
    {NetworkError} \cup ErrorResponses \cup BrokenOkResponses(h.vendor)
    \cup {Completion(T) : T \in SampleTexts(h)}

-----------------------------------------------------------------------------
\* The invocation of a handler, step by step.

NoReply == [kind |-> "none", status |-> 0, body |-> "none", text |-> "", message |-> Undefined]

AllKeys == ApiKeys \cup SearchKeys
Environment(keys, provider) == [set |-> keys, SEARCH_PROVIDER |-> provider]
FullEnv == Environment(AllKeys, Undefined)

\* process.env of the invocations explored: everything set, or one API key unset
Envs == {FullEnv} \cup {Environment(AllKeys \ {k}, Undefined) : k \in ApiKeys}

BodiesOf(h) == IF h.parsesBody THEN AnalysisBodies ELSE {NoBody}

\* ---------------------------------------------------------------------------
\* The browser side: TechnologyResearchOrchestrator (js/agents/technology-research.js).

\* this.analysisModules
analysisModules ==
    <<[name |-> "market-analysis",     title |-> "Market Analysis"],
      [name |-> "vendor-analysis",     title |-> "Vendor Analysis"],
      [name |-> "maturity-assessment", title |-> "Maturity Assessment"],
      [name |-> "5-year-forecast",     title |-> "5-Year Forecast"]>>

\* what a fetch of the browser settles to: a 2xx response with a JSON body, a
\* non-2xx response, a 2xx response whose body is not JSON, a network error
NoModuleReply == [kind |-> "none", status |-> 0, success |-> FALSE, error |-> Undefined]

ClientReplies ==
    {[kind |-> "json", status |-> 200, success |-> TRUE, error |-> Undefined],
     [kind |-> "json", status |-> 200, success |-> FALSE, error |-> "Technology parameter required"],
     [kind |-> "json", status |-> 200, success |-> FALSE, error |-> Undefined],
     [kind |-> "notOk", status |-> 500, success |-> FALSE, error |-> "OpenAI API key not configured"],
     [kind |-> "notOk", status |-> 429, success |-> FALSE, error |-> Undefined],
     [kind |-> "notJson", status |-> 200, success |-> FALSE, error |-> Undefined],
     [kind |-> "rejected", status |-> 0, success |-> FALSE, error |-> Undefined]}

\* if (!response.ok) throw ...; result = await response.json(); if (!result.success) throw ...
ReplyAccepted(reply) == reply.kind = "json" /\ reply.success

\* the message of the Error executeModule throws for a reply it does not accept
ModuleErrorMessage(module, reply) ==
    module.title \o ": " \o
        (CASE reply.kind = "notOk"    -> module.title \o " failed: " \o ToString(reply.status)
           [] reply.kind = "rejected" -> "Failed to fetch"
           [] reply.kind = "notJson"  -> "Unexpected token < in JSON at position 0"
           [] OTHER -> IF reply.error # Undefined THEN reply.error
                       ELSE module.title \o " failed")

\* the include* options of a caller that passes none of them
AllIncluded ==
    [includeMarketResearch |-> TRUE, includeVendorAnalysis |-> TRUE,
     includeHypeCycle |-> TRUE, includeStrategicSummary |-> TRUE]

\* the constructor's state
OrchIdle ==
    [pc |-> "idle", technology |-> "", options |-> AllIncluded,
     currentModuleIndex |-> 0, status |-> "none",
     requests |-> <<>>, modules |-> <<>>, reply |-> NoModuleReply,
     error |-> "", outcome |-> "none"]

\* conductResearch up to the loop: currentResearch is initialised
OrchStarted(technology, options) ==
    [OrchIdle EXCEPT !.pc = "loop", !.technology = technology, !.options = options,
                     !.status = "in-progress", !.outcome = "pending"]

\* one turn of the for loop: executeModule(module, technology) issues its fetch
OrchExecuteModule ==
    /\ UNCHANGED <<serverVars, app>>
    /\ orch.pc = "loop"
    /\ orch.currentModuleIndex < Len(analysisModules)
    /\ orch' = [orch EXCEPT
            !.pc = "await",
            !.requests = Append(@, analysisModules[orch.currentModuleIndex + 1].name)]
    /\ UNCHANGED <<agent, ui>>

\* the fetch of executeModule settles
OrchModuleSettles ==
    /\ UNCHANGED <<serverVars, app>>
    /\ orch.pc = "await"
    /\ \E reply \in ClientReplies : orch' = [orch EXCEPT !.pc = "settled", !.reply = reply]
    /\ UNCHANGED <<agent, ui>>

\* the result is stored in currentResearch.modules; updateProgress; next turn
OrchModuleStored ==
    /\ UNCHANGED <<serverVars, app>>
    /\ orch.pc = "settled"
    /\ ReplyAccepted(orch.reply)
    /\ orch' = [orch EXCEPT
            !.pc = "loop",
            !.modules = Append(@, analysisModules[orch.currentModuleIndex + 1].name),
            !.currentModuleIndex = @ + 1]
    /\ UNCHANGED <<agent, ui>>

\* a variant of the catch path that calls the failed module again
OrchModuleRetried ==
    /\ UNCHANGED <<serverVars, app>>
    /\ orch.pc = "settled"
    /\ ~ReplyAccepted(orch.reply)
    /\ orch' = [orch EXCEPT !.pc = "loop"]
    /\ UNCHANGED <<agent, ui>>

\* executeModule throws: the error leaves the loop for the catch of conductResearch
OrchModuleThrows ==
    /\ UNCHANGED <<serverVars, app>>
    /\ orch.pc = "settled"
    /\ ~ReplyAccepted(orch.reply)
    /\ orch' = [orch EXCEPT
            !.pc = "catch",
            !.error = ModuleErrorMessage(analysisModules[orch.currentModuleIndex + 1],
                                         orch.reply)]
    /\ UNCHANGED <<agent, ui>>

\* after the loop: aggregateResults and generateArtifacts, which complete or
\* throw (jsPDF or the canvas may be missing); then status 'completed', showResults
OrchAggregate ==
    /\ UNCHANGED <<serverVars, app>>
    /\ orch.pc = "loop"
    /\ orch.currentModuleIndex = Len(analysisModules)
    /\ \/ /\ orch' = [orch EXCEPT !.pc = "done", !.status = "completed",
                                  !.outcome = "resolved"]
          /\ ui' = [ui EXCEPT !.view = "results"]
       \/ /\ orch' = [orch EXCEPT !.pc = "catch",
                                  !.error = "Cannot destructure property 'jsPDF' of undefined"]
          /\ ui' = ui
    /\ UNCHANGED agent

\* catch (error): status 'failed', showError(error.message), throw error
OrchCatch ==
    /\ UNCHANGED <<serverVars, app>>
    /\ orch.pc = "catch"
    /\ orch' = [orch EXCEPT !.pc = "done", !.status = "failed", !.outcome = "rejected"]
    /\ ui' = [ui EXCEPT !.view = "error", !.notice = orch.error, !.retry = "reload"]
    /\ UNCHANGED agent

\* ---------------------------------------------------------------------------
\* The browser side: TechnologyResearchAgent (web search, then research phases).

AgentPhases == <<"search", "market", "vendor", "hype", "strategic", "artifacts">>

\* the percentage passed to updateProgress when a phase is over
PhasePercent(phase) ==
    CASE phase = "search"    -> 20
      [] phase = "market"    -> 40
      [] phase = "vendor"    -> 60
      [] phase = "hype"      -> 80
      [] phase = "strategic" -> 90
      [] phase = "artifacts" -> 100

PhaseLabel(phase) ==
    CASE phase = "market"    -> "Market analysis failed: "
      [] phase = "vendor"    -> "Vendor analysis failed: "
      [] phase = "hype"      -> "Hype cycle analysis failed: "
      [] phase = "strategic" -> "Strategic analysis failed: "
      [] OTHER               -> "Artifact generation failed: "

\* the types of the four search queries of gatherWebIntelligence
SearchTypes == {"market", "vendor", "hype", "technology"}

\* the options the app's form passes: one checkbox per optional phase
AgentOptions ==
    [includeMarketResearch : BOOLEAN, includeVendorAnalysis : BOOLEAN,
     includeHypeCycle : BOOLEAN, includeStrategicSummary : BOOLEAN]

\* if (options.includeX !== false): generateArtifacts is not among the options
\* of the form, so the artifacts are always generated
Included(options, phase) ==
    CASE phase = "market"    -> options.includeMarketResearch
      [] phase = "vendor"    -> options.includeVendorAnalysis
      [] phase = "hype"      -> options.includeHypeCycle
      [] phase = "strategic" -> options.includeStrategicSummary
      [] OTHER               -> TRUE

\* callAPI: the message of the Error thrown for a reply it does not accept
ApiErrorMessage(reply) ==
    CASE reply.kind = "notOk"    -> "API call failed: " \o ToString(reply.status)
      [] reply.kind = "rejected" -> "Failed to fetch"
      [] reply.kind = "notJson"  -> "Unexpected token < in JSON at position 0"
      [] OTHER -> IF reply.error # Undefined THEN reply.error ELSE "API call failed"

AgentIdle ==
    [pc |-> "idle", technology |-> "",
     options |-> AllIncluded,
     k |-> 1, progress |-> <<>>, started |-> <<>>, finished |-> <<>>,
     pending |-> {}, searchFailed |-> FALSE, searchData |-> {},
     saved |-> FALSE, requests |-> <<>>,
     reply |-> NoModuleReply, error |-> "", outcome |-> "none"]

\* conductResearch up to the await of Promise.all: updateProgress(..., 0), then
\* gatherWebIntelligence issues its four searches at once
AgentStarted(technology, options) ==
    [AgentIdle EXCEPT !.pc = "searching", !.technology = technology, !.options = options,
                      !.progress = <<0>>, !.started = <<"search">>,
                      !.pending = SearchTypes, !.outcome = "pending"]

\* the agent after a phase is over: updateProgress with the phase's percentage
PhaseOver(a, phase) ==
    [a EXCEPT !.pc = "next", !.k = @ + 1,
              !.finished = Append(@, phase),
              !.progress = Append(@, PhasePercent(phase))]

\* one of the searches settles. Promise.all rejects with the first failure and
\* the catch of gatherWebIntelligence empties searchData and lets the run go
\* on; it resolves when the last search succeeded and the results of the four
\* are stored. A search that settles later changes nothing of the run.
AgentSearchSettles ==
    /\ UNCHANGED <<serverVars, app>>
    /\ \E type \in agent.pending, reply \in ClientReplies :
        agent' =
            IF agent.pc = "searching" /\
               (~ReplyAccepted(reply) \/ agent.pending = {type})
            THEN [PhaseOver(agent, "search") EXCEPT
                    !.pending = agent.pending \ {type},
                    !.searchData = IF ReplyAccepted(reply) THEN SearchTypes ELSE {},
                    !.searchFailed = ~ReplyAccepted(reply)]
            ELSE [agent EXCEPT !.pending = @ \ {type},
                               !.searchFailed = @ \/ ~ReplyAccepted(reply)]
    /\ UNCHANGED <<orch, ui>>

\* a variant of conductResearch that does not await the phase it has started
AgentNextPhaseUnawaited ==
    /\ UNCHANGED <<serverVars, app>>
    /\ agent.pc = "next"
    /\ agent.k <= Len(AgentPhases)
    /\ agent' = [agent EXCEPT !.k = @ + 1,
                              !.started = Append(@, AgentPhases[agent.k]),
                              !.progress = Append(@, PhasePercent(AgentPhases[agent.k]))]
    /\ UNCHANGED <<orch, ui>>

\* conductResearch goes to the next phase: skipped when its option is false,
\* else its request is issued (callAPI('research', ...)) or the artifacts begin
AgentNextPhase ==
    /\ UNCHANGED <<serverVars, app>>
    /\ agent.pc = "next"
    /\ agent.k <= Len(AgentPhases)
    /\ agent' =
        IF ~Included(agent.options, AgentPhases[agent.k])
        THEN [agent EXCEPT !.k = @ + 1]
        ELSE IF AgentPhases[agent.k] = "artifacts"
        THEN [agent EXCEPT !.pc = "artifacts", !.started = Append(@, "artifacts")]
        ELSE [agent EXCEPT !.pc = "await",
                           !.started = Append(@, AgentPhases[agent.k]),
                           !.requests = Append(@, AgentPhases[agent.k])]
    /\ UNCHANGED <<orch, ui>>

AgentPhaseSettles ==
    /\ UNCHANGED <<serverVars, app>>
    /\ agent.pc = "await"
    /\ \E reply \in ClientReplies : agent' = [agent EXCEPT !.pc = "settled", !.reply = reply]
    /\ UNCHANGED <<orch, ui>>

\* a variant in which a failed analysis is skipped like a failed web search
AgentPhaseDoneLenient ==
    /\ UNCHANGED <<serverVars, app>>
    /\ agent.pc = "settled"
    /\ agent' = PhaseOver(agent, AgentPhases[agent.k])
    /\ UNCHANGED <<orch, ui>>

\* the analysis is stored, phases.push, setStepCompleted; the catch of the phase
\* rethrows with the phase's label
AgentPhaseDone ==
    /\ UNCHANGED <<serverVars, app>>
    /\ agent.pc = "settled"
    /\ agent' =
        IF ReplyAccepted(agent.reply)
        THEN PhaseOver(agent, AgentPhases[agent.k])
        ELSE [agent EXCEPT !.pc = "catch",
                !.error = PhaseLabel(AgentPhases[agent.k]) \o ApiErrorMessage(agent.reply)]
    /\ UNCHANGED <<orch, ui>>

\* generateArtifacts completes or throws (jsPDF may be missing)
AgentArtifacts ==
    /\ UNCHANGED <<serverVars, app>>
    /\ agent.pc = "artifacts"
    /\ \/ agent' = PhaseOver(agent, "artifacts")
       \/ agent' = [agent EXCEPT !.pc = "catch",
                !.error = PhaseLabel("artifacts") \o
                          "Cannot destructure property 'jsPDF' of undefined"]
    /\ UNCHANGED <<orch, ui>>

\* the end of conductResearch: saveToHistory, showResults, return currentResearch
AgentComplete ==
    /\ UNCHANGED <<serverVars, app>>
    /\ agent.pc = "next"
    /\ agent.k > Len(AgentPhases)
    /\ agent' = [agent EXCEPT !.pc = "done", !.outcome = "resolved", !.saved = TRUE]
    /\ ui' = [ui EXCEPT !.view = "results"]
    /\ UNCHANGED orch

\* catch (error): handleError shows the toast and the form again, then throw error
AgentCatch ==
    /\ UNCHANGED <<serverVars, app>>
    /\ agent.pc = "catch"
    /\ agent' = [agent EXCEPT !.pc = "done", !.outcome = "rejected"]
    /\ ui' = [ui EXCEPT !.view = "form", !.notice = "Research failed: " \o agent.error]
    /\ UNCHANGED orch

\* ---------------------------------------------------------------------------
\* The browser side: the two pages that start a research run.
\*   "interface" : TechnologyResearchInterface with TechnologyResearchOrchestrator
\*   "app"       : EAAssistant (app.js) with TechnologyResearchAgent

Pages == {"interface", "app"}

\* what the user may have typed into the technology field
InputValues == {"", "AI", " Zero Trust Security "}

\* technology.length < 3 is refused by startResearch
MinTechnologyLength == 3

\* no page is loaded
UiInit ==
    [page |-> "none", installed |-> "none", isResearchActive |-> FALSE, view |-> "none",
     notice |-> "", retry |-> "none"]

\* initializeInterface / the app's page after load: the form is shown
UiForm(page) == [UiInit EXCEPT !.page = page, !.view = "form"]

\* window.technologyResearch is the object of the script that was loaded last:
\* the orchestrator (technology-research.js) or the agent. The interface is the
\* orchestrator's own page.
Installed(page) ==
    IF page = "interface" THEN {"orchestrator"} ELSE {"orchestrator", "agent"}

LoadPage ==
    /\ UNCHANGED <<serverVars, app>>
    /\ ui.page = "none"
    /\ \E page \in Pages :
        \E runner \in Installed(page) :
            ui' = [UiForm(page) EXCEPT !.installed = runner]
    /\ UNCHANGED <<orch, agent>>

\* document.getElementById('technology-input') finds the field: it is part of
\* the interface until showError replaces the interface by the error panel
InputExists == ~(ui.view = "error" /\ ui.retry = "resetInterface")

\* a variant of startResearch without its first line
StartResearchUnguarded ==
    /\ UNCHANGED <<serverVars, app>>
    /\ ui.page = "interface"
    /\ InputExists
    /\ \E value \in InputValues :
        IF Len(Trim(value)) < MinTechnologyLength
        THEN /\ ui' = [ui EXCEPT !.notice =
                        "Please enter a technology area (minimum 3 characters)"]
             /\ orch' = orch
        ELSE /\ ui' = [ui EXCEPT !.isResearchActive = TRUE, !.view = "progress",
                                 !.notice = ""]
             /\ orch' = OrchStarted(Trim(value), AllIncluded)
    /\ UNCHANGED agent

\* TechnologyResearchInterface.startResearch up to its await; the button's
\* onclick and the Enter key call it at any time
StartResearch ==
    /\ UNCHANGED <<serverVars, app>>
    /\ ui.page = "interface"
    /\ ~ui.isResearchActive
    /\ InputExists
    /\ \E value \in InputValues :
        IF Len(Trim(value)) < MinTechnologyLength
        THEN /\ ui' = [ui EXCEPT !.notice =
                        "Please enter a technology area (minimum 3 characters)"]
             /\ orch' = orch
        ELSE /\ ui' = [ui EXCEPT !.isResearchActive = TRUE, !.view = "progress",
                                 !.notice = ""]
             /\ orch' = OrchStarted(Trim(value), AllIncluded)
    /\ UNCHANGED agent

\* a variant of startResearch without its finally block
ResearchSettledActive ==
    /\ UNCHANGED <<serverVars, app>>
    /\ ui.page = "interface"
    /\ orch.pc = "done"
    /\ ui' = IF orch.outcome = "rejected"
             THEN [ui EXCEPT !.view = "error", !.notice = orch.error,
                             !.retry = "resetInterface"]
             ELSE ui
    /\ orch' = [orch EXCEPT !.pc = "idle"]
    /\ UNCHANGED agent

\* the await of startResearch is over: catch shows the error panel with its
\* "Try Again" button (resetInterface); finally isResearchActive = false
ResearchSettled ==
    /\ UNCHANGED <<serverVars, app>>
    /\ ui.page = "interface"
    /\ orch.pc = "done"
    /\ ui' = IF orch.outcome = "rejected"
             THEN [ui EXCEPT !.isResearchActive = FALSE, !.view = "error",
                             !.notice = orch.error, !.retry = "resetInterface"]
             ELSE [ui EXCEPT !.isResearchActive = FALSE]
    /\ orch' = [orch EXCEPT !.pc = "idle"]
    /\ UNCHANGED agent

\* the "Try Again" button of the error panel
resetInterface ==
    /\ UNCHANGED <<serverVars, app>>
    /\ ui.page = "interface"
    /\ ui.view = "error"
    /\ ui.retry = "resetInterface"
    /\ ui' = [UiForm("interface") EXCEPT !.installed = ui.installed]
    /\ UNCHANGED <<orch, agent>>

\* EAAssistant.startTechnologyResearch up to its await
startTechnologyResearch ==
    /\ UNCHANGED <<serverVars, app>>
    /\ ui.page = "app"
    /\ ui.view = "form"
    /\ agent.pc = "idle"
    /\ orch.pc = "idle"
    /\ \E value \in InputValues, options \in AgentOptions :
        IF Trim(value) = ""
        THEN /\ ui' = [ui EXCEPT !.notice = "Please enter a technology area"]
             /\ UNCHANGED <<orch, agent>>
        ELSE /\ ui' = [ui EXCEPT !.view = "progress", !.notice = ""]
             /\ IF ui.installed = "agent"
                THEN agent' = AgentStarted(Trim(value), options) /\ orch' = orch
                ELSE orch' = OrchStarted(Trim(value), options) /\ agent' = agent

\* the await of startTechnologyResearch is over: its catch shows a toast and
\* calls resetResearchInterface
TechnologyResearchSettled ==
    /\ UNCHANGED <<serverVars, app>>
    /\ ui.page = "app"
    /\ agent.pc = "done" \/ orch.pc = "done"
    /\ ui' = IF \/ agent.pc = "done" /\ agent.outcome = "rejected"
                \/ orch.pc = "done" /\ orch.outcome = "rejected"
             THEN [ui EXCEPT !.view = "form",
                             !.notice = "Research failed. Please try again."]
             ELSE ui
    /\ agent' = [agent EXCEPT !.pc = "idle"]
    /\ orch' = [orch EXCEPT !.pc = "idle"]

\* the "New Research" button of the results: resetResearchInterface
startNewResearch ==
    /\ UNCHANGED <<serverVars, app>>
    /\ ui.page = "app"
    /\ ui.view = "results"
    /\ agent.pc = "idle"
    /\ orch.pc = "idle"
    /\ ui' = [ui EXCEPT !.view = "form", !.notice = ""]
    /\ UNCHANGED <<orch, agent>>

NextClient ==
    \/ LoadPage
    \/ StartResearch
    \/ OrchExecuteModule
    \/ OrchModuleSettles
    \/ OrchModuleStored
    \/ OrchModuleThrows
    \/ OrchAggregate
    \/ OrchCatch
    \/ ResearchSettled
    \/ resetInterface
    \/ startTechnologyResearch
    \/ AgentSearchSettles
    \/ AgentNextPhase
    \/ AgentPhaseSettles
    \/ AgentPhaseDone
    \/ AgentArtifacts
    \/ AgentComplete
    \/ AgentCatch
    \/ TechnologyResearchSettled
    \/ startNewResearch

\* ---------------------------------------------------------------------------
\* The browser side: the app page (app.js) with the helper of research-interface.js.
\* The modal shows an agent's interface; the form 'research-form' inside it has
\* the submit listener of EAAssistant, and the document has the submit and
\* keydown listeners of ResearchInterface. A conductResearch call is kept as
\* pending or settled here; its phases are the subject of the agent above.

\* the keys of EA_CONFIG.agents a card may pass to openAgent, and one that is none
AgentTypes == {"technology-research", "strategic-analysis", "unknown"}

\* EA_CONFIG.agents[agentType]?.status
AgentStatus(agentType) ==
    CASE agentType = "technology-research" -> "ready"
      [] agentType = "strategic-analysis"  -> "coming-soon"
      [] OTHER                             -> "missing"

\* if (sessions.length > 20) sessions.splice(20)
SessionLimit == 20

\* this.currentSession = null
NoSession == [id |-> 0, status |-> "none"]

\* n sessions of earlier visits, all completed, newest first
OlderSessions(n) == [k \in 1..n |-> [id |-> n + 1 - k, status |-> "completed"]]

\* what localStorage 'ea_research_sessions' may hold when the page loads: nothing,
\* a list one below the limit, a full list, or a session a reload interrupted
StoredBefore ==
    {<<>>, OlderSessions(SessionLimit - 1), OlderSessions(SessionLimit),
     <<[id |-> 1, status |-> "running"]>>}

\* the user's submissions of the form that are followed
MaxSubmits == 2

\* the closeModal timers that may be pending together
MaxTimers == 2

\* the page before DOMContentLoaded
AppInit ==
    [loaded |-> FALSE, recoveryDue |-> FALSE, modalActive |-> FALSE, modalBody |-> "",
     timers |-> 0, formShown |-> FALSE, resultsShown |-> FALSE,
     stored |-> <<>>, currentSession |-> NoSession, nextId |-> 1,
     calls |-> <<>>, currentResearch |-> 0, submits |-> 0]

\* document.getElementById('research-form') finds the form
FormExists(a) == a.modalBody = "technology-research"

\* saveSession: the stored list with the current session replaced or put first,
\* cut to the limit
saveSession(a) ==
    IF a.currentSession.id = 0 THEN a
    ELSE LET sessions == a.stored
             existing == {k \in 1..Len(sessions) : sessions[k].id = a.currentSession.id}
             existingIndex == CHOOSE k \in existing : \A j \in existing : k <= j
             updated == IF existing # {}
                        THEN [sessions EXCEPT ![existingIndex] = a.currentSession]
                        ELSE <<a.currentSession>> \o sessions
         IN [a EXCEPT !.stored = IF Len(updated) > SessionLimit
                                 THEN SubSeq(updated, 1, SessionLimit)
                                 ELSE updated]

\* validateFormData
validateFormData(technologyArea, options) ==
    /\ technologyArea # ""
    /\ Len(technologyArea) >= MinTechnologyLength
    /\ \/ options.includeMarketResearch
       \/ options.includeVendorAnalysis
       \/ options.includeHypeCycle
       \/ options.includeStrategicSummary

\* conductResearch is called: this.currentResearch is a new object, the call
\* is pending at its first await
ConductResearch(a, caller, session, n) ==
    [a EXCEPT !.calls = Append(@, [caller |-> caller, session |-> session, submit |-> n,
                                   pc |-> "await", outcome |-> "pending"]),
              !.currentResearch = Len(a.calls) + 1]

\* EAAssistant's listener on the form: startTechnologyResearch up to its await
FormListener(a, value, n) ==
    IF Trim(value) = "" THEN a
    ELSE ConductResearch([a EXCEPT !.formShown = FALSE], "EAAssistant", 0, n)

\* ResearchInterface.startResearch up to its await: a new current session,
\* showProgressInterface, saveSession, conductResearch
SessionStarted(a, n) ==
    LET session == [id |-> a.nextId, status |-> "running"]
        shown == [a EXCEPT !.currentSession = session, !.nextId = @ + 1,
                           !.formShown = FALSE]
    IN ConductResearch(saveSession(shown), "ResearchInterface", session.id, n)

\* handleResearchSubmission up to the await of startResearch
handleResearchSubmission(a, value, options, n) ==
    IF validateFormData(Trim(value), options) THEN SessionStarted(a, n) ELSE a

\* DOMContentLoaded: localStorage holds what earlier visits left
LoadApp ==
    /\ UNCHANGED <<serverVars, pageVars>>
    /\ ~app.loaded
    /\ \E sessions \in StoredBefore :
        app' = [app EXCEPT !.loaded = TRUE, !.recoveryDue = TRUE, !.stored = sessions,
                           !.nextId = Len(sessions) + 1]

\* recoverSession, one second after DOMContentLoaded: a stored session that is
\* 'running' is offered when it is younger than ten minutes, and the user
\* confirms or declines
recoverSession ==
    /\ UNCHANGED <<serverVars, pageVars>>
    /\ app.recoveryDue
    /\ LET running == {k \in 1..Len(app.stored) : app.stored[k].status = "running"}
           first == CHOOSE k \in running : \A j \in running : k <= j
       IN \E recovered \in BOOLEAN :
            app' = [app EXCEPT
                !.recoveryDue = FALSE,
                !.currentSession = IF running # {} /\ recovered
                                   THEN app.stored[first] ELSE @]

\* openAgent, from a card of the dashboard
openAgent ==
    /\ UNCHANGED <<serverVars, pageVars>>
    /\ app.loaded
    /\ ~app.modalActive
    /\ \E agentType \in AgentTypes :
        app' = IF AgentStatus(agentType) = "ready"
               THEN [app EXCEPT !.modalBody = agentType, !.modalActive = TRUE,
                                !.formShown = TRUE, !.resultsShown = FALSE]
               ELSE app

\* closeModal, from a button of the modal or the Escape key: the modal is
\* hidden at once and a timer is set to empty its body
closeModal ==
    /\ UNCHANGED <<serverVars, pageVars>>
    /\ app.loaded
    /\ app.timers < MaxTimers
    /\ app' = [app EXCEPT !.modalActive = FALSE, !.timers = @ + 1]

\* the callback of closeModal's setTimeout, 300 ms later
ModalTimerFires ==
    /\ UNCHANGED <<serverVars, pageVars>>
    /\ app.timers > 0
    /\ app' = [app EXCEPT !.timers = @ - 1, !.modalBody = "", !.formShown = FALSE,
                          !.resultsShown = FALSE]

\* one submit event of the form: the form's listener runs, the event bubbles
\* to the document and the document's listener runs
SubmitForm ==
    /\ UNCHANGED <<serverVars, pageVars>>
    /\ app.modalActive
    /\ FormExists(app)
    /\ app.formShown
    /\ app.submits < MaxSubmits
    /\ \E value \in InputValues, options \in AgentOptions :
        LET n == app.submits + 1
            counted == [app EXCEPT !.submits = n]
        IN app' = handleResearchSubmission(FormListener(counted, value, n),
                                           value, options, n)

\* Ctrl+Enter: the document's keydown listener, when the form is displayed
CtrlEnter ==
    /\ UNCHANGED <<serverVars, pageVars>>
    /\ app.modalActive
    /\ FormExists(app)
    /\ app.formShown
    /\ app.submits < MaxSubmits
    /\ \E value \in InputValues, options \in AgentOptions :
        LET n == app.submits + 1
        IN app' = handleResearchSubmission([app EXCEPT !.submits = n], value, options, n)

\* the "New Research" button of the results: startNewResearch
AppNewResearch ==
    /\ UNCHANGED <<serverVars, pageVars>>
    /\ app.modalActive
    /\ FormExists(app)
    /\ app.resultsShown
    /\ ~app.formShown
    /\ app' = [app EXCEPT !.formShown = TRUE, !.resultsShown = FALSE]

\* a conductResearch call settles and its caller's await is over. The agent
\* shows the results, or handleError shows the form again; both throw when the
\* modal body is gone. EAAssistant's catch calls resetResearchInterface;
\* ResearchInterface marks this.currentSession and saves it.
CallSettles ==
    /\ UNCHANGED <<serverVars, pageVars>>
    /\ \E i \in 1..Len(app.calls), resolves \in BOOLEAN :
        /\ app.calls[i].pc = "await"
        /\ LET resolved == resolves /\ FormExists(app)
               settled == [app EXCEPT
                   !.calls[i].pc = "settled",
                   !.calls[i].outcome = IF resolved THEN "resolved" ELSE "rejected",
                   !.resultsShown = IF resolved THEN TRUE
                                    ELSE IF app.calls[i].caller = "EAAssistant"
                                            /\ FormExists(app)
                                         THEN FALSE ELSE @,
                   !.formShown = IF resolved THEN @ ELSE FormExists(app)]
           IN app' = IF app.calls[i].caller = "ResearchInterface"
                     THEN saveSession([settled EXCEPT !.currentSession.status =
                                        IF resolved THEN "completed" ELSE "failed"])
                     ELSE settled

NextApp ==
    \/ LoadApp
    \/ recoverSession
    \/ openAgent
    \/ closeModal
    \/ ModalTimerFires
    \/ SubmitForm
    \/ CtrlEnter
    \/ AppNewResearch
    \/ CallSettles

\* no invocation is remembered yet (see Invocation)
NoEarlier ==
    [set |-> FALSE, handler |-> "", event |-> [httpMethod |-> "", body |-> NoBody],
     env |-> Environment({}, Undefined), replies |-> <<>>, result |-> Pending]

Init ==
    /\ handler = ""
    /\ event = [httpMethod |-> "", body |-> NoBody]
    /\ env = Environment({}, Undefined)
    /\ pc = "idle"
    /\ fetches = <<>>
    /\ upstream = NoReply
    /\ thrown = ""
    /\ result = Pending
    /\ testResults = <<>>
    /\ searchResults = 0
    /\ replies = <<>>
    /\ earlier = NoEarlier
    /\ orch = OrchIdle
    /\ agent = AgentIdle
    /\ ui = UiInit
    /\ app = AppInit

\* a variant in which the results array is created once, when the module is
\* loaded, and lives on between invocations
KeptResults == testResults

\* const results = { ..., tests: [] } is created inside exports.handler
NewResults == <<>>

\* the platform calls exports.handler(event) of function h: the handler's
\* locals are created
Invoke(hs, methods, bodies, envs) ==
    /\ pc = "idle"
    /\ UNCHANGED clientVars
    /\ UNCHANGED earlier
    /\ searchResults' = 0
    /\ replies' = <<>>
    /\ \E h \in hs, m \in methods, e \in envs :
        \E b \in bodies[h] :
            /\ handler' = h.name
            /\ event' = [httpMethod |-> m, body |-> b]
            /\ env' = e
    /\ pc' = "entry"
    /\ fetches' = <<>>
    /\ upstream' = NoReply
    /\ thrown' = ""
    /\ result' = Pending
    /\ testResults' = NewResults

\* the platform delivers what the invocation settled to; the function is idle again
Finish(remembered) ==
    /\ pc = "done"
    /\ UNCHANGED clientVars
    /\ handler' = ""
    /\ event' = [httpMethod |-> "", body |-> NoBody]
    /\ env' = Environment({}, Undefined)
    /\ pc' = "idle"
    /\ fetches' = <<>>
    /\ upstream' = NoReply
    /\ thrown' = ""
    /\ result' = Pending
    /\ testResults' = NewResults
    /\ searchResults' = 0
    /\ replies' = <<>>
    /\ earlier' = remembered

Return == Finish(earlier)

\* what the invocation was given: the event, the environment and the upstream
\* responses, with what it answered
Invocation ==
    [set |-> TRUE, handler |-> handler, event |-> event, env |-> env,
     replies |-> replies, result |-> result]

\* the same, the invocation being remembered for comparison with later ones
ReturnRemembered ==
    /\ ~earlier.set
    /\ Finish(Invocation)

\* if (event.httpMethod === 'OPTIONS') return { statusCode: 200, headers, body: '' }
Preflight ==
    /\ pc = "entry"
    /\ UNCHANGED clientVars
    /\ UNCHANGED <<searchResults, replies, earlier>>
    /\ event.httpMethod = "OPTIONS"
    /\ result' = Respond(200, [text |-> ""])
    /\ pc' = "done"
    /\ UNCHANGED <<handler, event, env, fetches, upstream, thrown, testResults>>

MethodNotAllowed ==
    /\ pc = "entry"
    /\ UNCHANGED clientVars
    /\ UNCHANGED <<searchResults, replies, earlier>>
    /\ event.httpMethod # "OPTIONS"
    /\ event.httpMethod \notin H.allowed
    /\ result' = Respond(405, [error |-> "Method not allowed"])
    /\ pc' = "done"
    /\ UNCHANGED <<handler, event, env, fetches, upstream, thrown, testResults>>

\* entering the try block: JSON.parse(event.body) where the handler reads the body
ParseBody ==
    /\ pc = "entry"
    /\ UNCHANGED clientVars
    /\ UNCHANGED <<searchResults, replies, earlier>>
    /\ event.httpMethod # "OPTIONS"
    /\ event.httpMethod \in H.allowed
    /\ IF H.parsesBody /\ ParseThrows(event.body)
       THEN thrown' = ParseMessage(event.body) /\ pc' = "catch"
       ELSE thrown' = thrown /\ pc' = IF H.module = "ea-api" THEN "route" ELSE "parsed"
    /\ UNCHANGED <<handler, event, env, fetches, upstream, result, testResults>>

\* if (!technology) return 400
ValidateFields ==
    /\ pc = "parsed"
    /\ UNCHANGED clientVars
    /\ UNCHANGED <<searchResults, replies, earlier>>
    /\ IF \E f \in H.required : ~Truthy(event.body.json[f])
       THEN result' = Respond(400, [error |-> RequiredMessage(H)]) /\ pc' = "done"
       ELSE result' = result /\ pc' = "key"
    /\ UNCHANGED <<handler, event, env, fetches, upstream, thrown, testResults>>

\* if (!apiKey) return 500, in the handlers that look at the key
CheckKey ==
    /\ pc = "key"
    /\ UNCHANGED clientVars
    /\ UNCHANGED <<searchResults, replies, earlier>>
    /\ IF H.checksKey /\ H.keyVar \notin env.set
       THEN result' = Respond(500, [error |-> KeyMessage(H)]) /\ pc' = "done"
       ELSE result' = result /\ pc' = "call"
    /\ UNCHANGED <<handler, event, env, fetches, upstream, thrown, testResults>>

Request(to, keyVar) ==
    [to |-> to, credential |-> IF keyVar \in env.set THEN keyVar ELSE Undefined]

\* await fetch(vendor): the request leaves
SendRequest ==
    /\ pc = "call"
    /\ UNCHANGED clientVars
    /\ UNCHANGED <<searchResults, replies, earlier>>
    /\ fetches' = Append(fetches, Request(H.vendor, H.keyVar))
    /\ pc' = "await"
    /\ UNCHANGED <<handler, event, env, upstream, thrown, result, testResults>>

\* the fetch settles
FetchSettles(answers) ==
    /\ pc = "await"
    /\ UNCHANGED clientVars
    /\ UNCHANGED <<searchResults, earlier>>
    /\ \E reply \in answers : upstream' = reply
    /\ pc' = "settled"
    /\ replies' = Append(replies, upstream')
    /\ UNCHANGED <<handler, event, env, fetches, thrown, result, testResults>>

\* the streams of Math.random values an extraction may draw
MaxRand == 2
RandomStreams == [1..MaxRand -> Variances]

\* the handlers that make one request and answer from it
SingleCall(h) == h.calls = 1 /\ h.module # "ea-api"

\* fetch rejected (network failure): the await throws into the catch block
FetchRejected ==
    /\ pc = "settled"
    /\ UNCHANGED clientVars
    /\ UNCHANGED <<searchResults, replies, earlier>>
    /\ upstream.kind = "rejected"
    /\ H.onNotOk # "record"
    /\ H.module # "ea-api"
    /\ thrown' = upstream.message
    /\ pc' = "catch"
    /\ UNCHANGED <<handler, event, env, fetches, upstream, result, testResults>>

\* a handler that sent the request again after a non-2xx answer (the handlers
\* do not: C6 distinguishes the two)
HandleNotOkRetrying ==
    /\ pc = "settled"
    /\ UNCHANGED clientVars
    /\ UNCHANGED <<searchResults, replies, earlier>>
    /\ upstream.kind = "notOk"
    /\ H.onNotOk \in {"passthrough", "throw"}
    /\ H.module # "ea-api"
    /\ Len(fetches) = 1
    /\ pc' = "call"
    /\ UNCHANGED <<handler, event, env, fetches, upstream, thrown, result, testResults>>

\* if (!response.ok): the response is answered with the vendor's status, or an
\* Error is thrown (supplier-quad)
HandleNotOk ==
    /\ pc = "settled"
    /\ UNCHANGED clientVars
    /\ UNCHANGED <<searchResults, replies, earlier>>
    /\ upstream.kind = "notOk"
    /\ H.onNotOk \in {"passthrough", "throw"}
    /\ H.module # "ea-api"
    /\ Len(fetches) = 1
    /\ IF H.onNotOk = "passthrough"
       THEN /\ result' = Respond(upstream.status, NotOkBody(H, upstream))
            /\ pc' = "done"
            /\ thrown' = thrown
       ELSE /\ thrown' = H.notOkLabel \o ToString(upstream.status)
            /\ pc' = "catch"
            /\ result' = result
    /\ UNCHANGED <<handler, event, env, fetches, upstream, testResults>>

\* the 2xx response is read and the 200 body is built from its text
HandleOk ==
    /\ pc = "settled"
    /\ UNCHANGED clientVars
    /\ UNCHANGED <<searchResults, replies, earlier>>
    /\ upstream.kind = "ok"
    /\ SingleCall(H)
    /\ IF ReadThrows(H, upstream) # ""
       THEN /\ thrown' = ReadThrows(H, upstream)
            /\ pc' = "catch"
            /\ result' = result
       ELSE /\ \E rnd \in IF H.module = "quad" THEN RandomStreams ELSE {<<0>>} :
                result' = Respond(200, SuccessBody(H, event.body.json, upstream.text, rnd))
            /\ pc' = "done"
            /\ thrown' = thrown
    /\ UNCHANGED <<handler, event, env, fetches, upstream, testResults>>

\* the catch block of exports.handler. Where it reads a const declared inside
\* the try block (startTime, overallStartTime) the read throws a ReferenceError
\* out of the handler: the invocation's promise rejects.
Catch ==
    /\ pc = "catch"
    /\ UNCHANGED clientVars
    /\ UNCHANGED <<searchResults, replies, earlier>>
    /\ result' = IF H.catchReads = "tryLocal"
                 THEN Reject("ReferenceError", "startTime is not defined")
                 ELSE Respond(500, CatchBody(H, thrown))
    /\ pc' = "done"
    /\ UNCHANGED <<handler, event, env, fetches, upstream, thrown, testResults>>

\* runClaudeTest / runComplexityTest: every outcome of the call is pushed to the
\* results, the next test follows
RecordTest ==
    /\ pc = "settled"
    /\ UNCHANGED clientVars
    /\ UNCHANGED <<searchResults, replies, earlier>>
    /\ H.onNotOk = "record"
    /\ testResults' = Append(testResults,
            [success |-> upstream.kind = "ok" /\ ReadThrows(H, upstream) = "",
             status  |-> upstream.status])
    /\ pc' = IF Len(fetches) < H.calls THEN "call" ELSE "summarize"
    /\ UNCHANGED <<handler, event, env, fetches, upstream, thrown, result>>

Summarize ==
    /\ pc = "summarize"
    /\ UNCHANGED clientVars
    /\ UNCHANGED <<searchResults, replies, earlier>>
    /\ result' = Respond(200, [testResults |-> testResults])
    /\ pc' = "done"
    /\ UNCHANGED <<handler, event, env, fetches, upstream, thrown, testResults>>

\* gemini discovery, after the list of models arrived: without a model that
\* supports generateContent the report is returned, else the speed test is sent
ModelsListed ==
    /\ pc = "settled"
    /\ UNCHANGED clientVars
    /\ UNCHANGED <<searchResults, replies, earlier>>
    /\ upstream.kind = "ok"
    /\ H.name = "gemini-discovery"
    /\ Len(fetches) = 1
    /\ CASE upstream.body = "notJson" ->
                /\ thrown' = ReadThrows(H, upstream)
                /\ pc' = "catch"
                /\ result' = result
         [] upstream.body = "otherJson" ->
                /\ result' = Respond(200, [speedTest |-> [attempted |-> FALSE, success |-> FALSE]])
                /\ pc' = "done"
                /\ thrown' = thrown
         [] OTHER ->
                /\ pc' = "call"
                /\ thrown' = thrown
                /\ result' = result
    /\ UNCHANGED <<handler, event, env, fetches, upstream, testResults>>

\* gemini discovery, the speed test answered: a non-2xx is reported inside a 200
SpeedTested ==
    /\ pc = "settled"
    /\ UNCHANGED clientVars
    /\ UNCHANGED <<searchResults, replies, earlier>>
    /\ upstream.kind \in {"ok", "notOk"}
    /\ H.name = "gemini-discovery"
    /\ Len(fetches) = 2
    /\ IF upstream.kind = "ok" /\ ReadThrows(H, upstream) # ""
       THEN /\ thrown' = ReadThrows(H, upstream)
            /\ pc' = "catch"
            /\ result' = result
       ELSE /\ result' = Respond(200,
                [speedTest |-> [attempted |-> TRUE, success |-> upstream.kind = "ok"]])
            /\ pc' = "done"
            /\ thrown' = thrown
    /\ UNCHANGED <<handler, event, env, fetches, upstream, testResults>>

-----------------------------------------------------------------------------
\* ea-api: routing, web search and the Claude call.

EaBodies ==
    {NoBody,
     JsonBody([endpoint |-> "test"]),
     JsonBody([endpoint |-> "search"]),
     JsonBody([endpoint |-> "search", query |-> "zero trust market size"]),
     JsonBody([endpoint |-> "claude"]),
     JsonBody([endpoint |-> "claude", prompt |-> "Summarise zero trust."]),
     JsonBody([prompt |-> "Summarise zero trust."]),
     JsonBody([endpoint |-> "chat"]),
     JsonBody([endpoint |-> "chat", prompt |-> "Summarise zero trust."]),
     JsonBody([endpoint |-> "research", researchPhase |-> "market"]),
     JsonBody([endpoint |-> "research", technology |-> "Zero Trust Security"]),
     JsonBody([endpoint |-> "research", technology |-> "Zero Trust Security",
               researchPhase |-> "market"])}

EaEnvs ==
    {FullEnv, Environment(AllKeys \ {"CLAUDE_API_KEY"}, Undefined),
     Environment(ApiKeys, Undefined),
     Environment(ApiKeys \cup {"SERPAPI_API_KEY"}, Undefined),
     Environment(AllKeys, "SerpApi"), Environment(AllKeys, "brave"),
     Environment(AllKeys, "google")}

\* a variant of the switch whose default answers like the connection test
RouteOfKnown(json) ==
    CASE json.endpoint = "search"   -> "search"
      [] json.endpoint = "research" -> "research"
      [] json.endpoint = "claude"   -> "claude"
      [] OTHER                      -> "test"

\* the handle* function the switch on endpoint selects
RouteOf(json) ==
    CASE json.endpoint = "test"     -> "test"
      [] json.endpoint = "search"   -> "search"
      [] json.endpoint = "research" -> "research"
      [] OTHER                      -> "claude"

\* generateSearchQueries returns three queries for every phase
QueriesPerPhase == 3

\* performWebSearch: process.env.SEARCH_PROVIDER || 'bing', lower-cased
SearchProvider ==
    IF Truthy(env.SEARCH_PROVIDER) THEN ToLowerCase(env.SEARCH_PROVIDER) ELSE "bing"

SearchKeyOf(provider) ==
    CASE provider = "bing"    -> "BING_SEARCH_API_KEY"
      [] provider = "serpapi" -> "SERPAPI_API_KEY"
      [] provider = "brave"   -> "BRAVE_SEARCH_API_KEY"

SearchLabel(provider) ==
    CASE provider = "bing"    -> "Bing search failed: "
      [] provider = "serpapi" -> "SerpApi search failed: "
      [] provider = "brave"   -> "Brave search failed: "

SearchKeyMessage(provider) ==
    CASE provider = "bing"    -> "Bing Search API key not configured"
      [] provider = "serpapi" -> "SerpApi key not configured"
      [] provider = "brave"   -> "Brave Search API key not configured"

\* handleTest: claude: !!CLAUDE_API_KEY,
\* search: !!(BING_SEARCH_API_KEY || SERPAPI_API_KEY || BRAVE_SEARCH_API_KEY)
Capabilities ==
    [claude |-> "CLAUDE_API_KEY" \in env.set,
     search |-> env.set \cap SearchKeys # {}]

\* the switch of exports.handler with the field checks of the handle* functions
EaRoute ==
    /\ pc = "route"
    /\ UNCHANGED clientVars
    /\ UNCHANGED <<searchResults, replies, earlier>>
    /\ LET json == event.body.json
           route == RouteOf(json)
       IN  CASE route = "test" ->
                    /\ result' = Respond(200,
                            [success |-> TRUE, message |-> "Connection test successful",
                             capabilities |-> Capabilities])
                    /\ pc' = "done"
             [] route = "search" ->
                    IF ~Truthy(json.query)
                    THEN result' = Respond(400, [error |-> "Search query is required"])
                         /\ pc' = "done"
                    ELSE result' = result /\ pc' = "search"
             [] route = "research" ->
                    IF ~Truthy(json.technology) \/ ~Truthy(json.researchPhase)
                    THEN result' = Respond(400,
                            [error |-> "Technology and research phase are required"])
                         /\ pc' = "done"
                    ELSE result' = result /\ pc' = "search"
             [] route = "claude" ->
                    IF ~Truthy(json.prompt)
                    THEN result' = Respond(400, [error |-> "Prompt is required"])
                         /\ pc' = "done"
                    ELSE result' = result /\ pc' = "claude"
    /\ UNCHANGED <<handler, event, env, fetches, upstream, thrown, testResults>>

\* the number of searches the request makes: Promise.all over the queries of
\* the phase for a research, one for a search
SearchCount == IF RouteOf(event.body.json) = "research" THEN QueriesPerPhase ELSE 1

\* performWebSearch for each query (Promise.all over the three of a research):
\* an unsupported provider or an unset search key throws before any request
EaSearch ==
    /\ pc = "search"
    /\ UNCHANGED clientVars
    /\ UNCHANGED <<searchResults, replies, earlier>>
    /\ LET n == SearchCount
           provider == SearchProvider
       IN  IF provider \notin {"bing", "serpapi", "brave"}
           THEN /\ thrown' = "Unsupported search provider: " \o env.SEARCH_PROVIDER
                /\ pc' = "handled"
                /\ fetches' = fetches
           ELSE IF SearchKeyOf(provider) \notin env.set
           THEN /\ thrown' = SearchKeyMessage(provider)
                /\ pc' = "handled"
                /\ fetches' = fetches
           ELSE /\ fetches' = fetches \o [k \in 1..n |-> Request(provider, SearchKeyOf(provider))]
                /\ pc' = "searching"
                /\ thrown' = thrown
    /\ UNCHANGED <<handler, event, env, upstream, result, testResults>>

SearchReplies == {NetworkError} \cup ErrorResponses \cup BrokenOkResponses("search")

\* a variant of a search that resolves with no results when its request fails
EaSearchSettlesLenient ==
    /\ pc = "searching"
    /\ UNCHANGED clientVars
    /\ UNCHANGED earlier
    /\ \E reply \in SearchReplies :
        /\ upstream' = reply
        /\ thrown' = thrown
        /\ searchResults' =
              IF reply.kind = "ok" /\ reply.body # "notJson"
              THEN searchResults + 1 ELSE searchResults
        /\ pc' = IF RouteOf(event.body.json) = "research" THEN "claude" ELSE "found"
    /\ replies' = Append(replies, upstream')
    /\ UNCHANGED <<handler, event, env, fetches, result, testResults>>

\* one of the searches settles: a network error, a non-2xx response or an
\* unreadable body rejects its promise and with it Promise.all, which takes the
\* handle* function to its catch; else the search resolves, and the handler
\* goes on when the last one has
EaSearchSettles ==
    /\ pc = "searching"
    /\ UNCHANGED clientVars
    /\ UNCHANGED earlier
    /\ \E reply \in SearchReplies :
        /\ upstream' = reply
        /\ CASE reply.kind = "rejected" ->
                    thrown' = reply.message /\ pc' = "handled"
                    /\ searchResults' = searchResults
             [] reply.kind = "notOk" ->
                    /\ thrown' = SearchLabel(SearchProvider) \o ToString(reply.status)
                    /\ pc' = "handled"
                    /\ searchResults' = searchResults
             [] reply.body = "notJson" ->
                    thrown' = "invalid json response body" /\ pc' = "handled"
                    /\ searchResults' = searchResults
             [] OTHER ->
                    /\ thrown' = thrown
                    /\ searchResults' = searchResults + 1
                    /\ pc' = IF searchResults + 1 < SearchCount THEN "searching"
                             ELSE IF RouteOf(event.body.json) = "research" THEN "claude"
                             ELSE "found"
    /\ replies' = Append(replies, upstream')
    /\ UNCHANGED <<handler, event, env, fetches, result, testResults>>

\* handleWebSearch answers with the results
EaSearchDone ==
    /\ pc = "found"
    /\ UNCHANGED clientVars
    /\ UNCHANGED <<searchResults, replies, earlier>>
    /\ result' = Respond(200, [success |-> TRUE, query |-> event.body.json.query])
    /\ pc' = "done"
    /\ UNCHANGED <<handler, event, env, fetches, upstream, thrown, testResults>>

\* callClaudeAPI: throws when the key is unset, else sends the request
EaCallClaude ==
    /\ pc = "claude"
    /\ UNCHANGED clientVars
    /\ UNCHANGED <<searchResults, replies, earlier>>
    /\ IF "CLAUDE_API_KEY" \notin env.set
       THEN /\ thrown' = "Claude API key not configured in environment"
            /\ pc' = "handled"
            /\ fetches' = fetches
       ELSE /\ fetches' = Append(fetches, Request("anthropic", "CLAUDE_API_KEY"))
            /\ pc' = "asked"
            /\ thrown' = thrown
    /\ UNCHANGED <<handler, event, env, upstream, result, testResults>>

\* callClaudeAPI after the fetch: a non-2xx response is thrown as an Error with
\* the vendor's message, or with the status when the body has no message
EaClaudeSettles ==
    /\ pc = "asked"
    /\ UNCHANGED clientVars
    /\ UNCHANGED <<searchResults, earlier>>
    /\ \E reply \in SampleReplies(H) :
        /\ upstream' = reply
        /\ CASE reply.kind = "rejected" ->
                    /\ thrown' = reply.message /\ pc' = "handled" /\ result' = result
             [] reply.kind = "notOk" ->
                    /\ thrown' = IF reply.message # Undefined THEN reply.message
                                 ELSE "Claude API error: " \o ToString(reply.status)
                    /\ pc' = "handled"
                    /\ result' = result
             [] ReadThrows(H, reply) # "" ->
                    /\ thrown' = ReadThrows(H, reply) /\ pc' = "handled" /\ result' = result
             [] OTHER ->
                    /\ thrown' = thrown
                    /\ pc' = "done"
                    /\ result' = Respond(200,
                        IF RouteOf(event.body.json) = "research"
                        THEN [success |-> TRUE,
                              technology |-> event.body.json.technology,
                              researchPhase |-> event.body.json.researchPhase,
                              analysis |-> reply.text]
                        ELSE [success |-> TRUE, content |-> reply.text])
    /\ replies' = Append(replies, upstream')
    /\ UNCHANGED <<handler, event, env, fetches, testResults>>

\* the catch block of the handle* function that was running
EaHandled ==
    /\ pc = "handled"
    /\ UNCHANGED clientVars
    /\ UNCHANGED <<searchResults, replies, earlier>>
    /\ LET route == RouteOf(event.body.json)
           label == CASE route = "search"   -> "Web search failed: "
                      [] route = "research" -> "Enhanced research failed: "
                      [] OTHER              -> "Claude API failed: "
       IN  result' = Respond(500, [error |-> label \o thrown])
    /\ pc' = "done"
    /\ UNCHANGED <<handler, event, env, fetches, upstream, thrown, testResults>>

-----------------------------------------------------------------------------
\* The handlers under every request, environment and kind of upstream response.

Next ==
    \/ Invoke(Handlers, Methods, [h \in Handlers |-> BodiesOf(h)], Envs)
    \/ Invoke({EaApi}, Methods, [h \in {EaApi} |-> EaBodies], EaEnvs)
    \/ Preflight
    \/ MethodNotAllowed
    \/ ParseBody
    \/ ValidateFields
    \/ CheckKey
    \/ SendRequest
    \/ FetchSettles(SampleReplies(H))
    \/ FetchRejected
    \/ HandleNotOk
    \/ HandleOk
    \/ Catch
    \/ RecordTest
    \/ Summarize
    \/ ModelsListed
    \/ SpeedTested
    \/ EaRoute
    \/ EaSearch
    \/ EaSearchSettles
    \/ EaSearchDone
    \/ EaCallClaude
    \/ EaClaudeSettles
    \/ EaHandled
    \/ Return

Spec == Init /\ [][Next]_vars

-----------------------------------------------------------------------------
\* The extraction of every module over generated completion texts: validated
\* POST requests, every key set, a 2xx completion from the vendor.

\* the sub-factors supplierQuadPrompt asks a score for
SubFactors ==
    <<"Product Capability", "Reliability & Operations", "Customer Experience",
      "Market Traction", "Financial Viability", "Ecosystem Partners",
      "Innovation Roadmap", "Market Understanding", "Platform Strategy",
      "Go-to-Market", "Standards Compliance", "Geographic Strategy">>

RECURSIVE ScoreLines(_)
ScoreLines(n) ==
    IF n = 0 THEN "" ELSE ScoreLines(n - 1) \o SubFactors[n] \o ": 80\n"

\* a vendor block of a quadrant reply: a bold name with its quadrant and a
\* number of sub-factor scores, or a numbered entry
VendorBlocks ==
    {"**Zscaler** is a leader.\n",
     "**Okta** Visionary\n" \o ScoreLines(7),
     "**Cisco Systems** Challenger\n" \o ScoreLines(8) \o "Execute: 75\nVision: 60\n",
     "2. Fortinet: niche\n"}

QuadrantOpenings ==
    {"", "The vendor landscape by ability to execute and completeness of vision.\n"}

MaxBlocks == 2

RECURSIVE BlockTexts(_)
BlockTexts(n) ==
    IF n = 0 THEN {""}
    ELSE {""} \cup {block \o rest : block \in VendorBlocks, rest \in BlockTexts(n - 1)}

\* a reply that names one vendor more than the list keeps
VendorLetters == <<"A", "B", "C", "D", "E", "F", "G", "H", "I", "J", "K", "L", "M">>

RECURSIVE NamedBlocks(_)
NamedBlocks(n) ==
    IF n = 0 THEN ""
    ELSE NamedBlocks(n - 1) \o "**Vendor " \o VendorLetters[n] \o "**: Challenger\n"

CrowdedText ==
    "The vendor landscape by ability to execute and completeness of vision.\n"
        \o NamedBlocks(MaxVendors + 1)

ExtractTexts(h) ==
    IF h.module = "quad"
    THEN {opening \o blocks : opening \in QuadrantOpenings, blocks \in BlockTexts(MaxBlocks)}
            \cup {CrowdedText}
    ELSE {opening \o sections : opening \in Openings, sections \in SectionTexts(PromptOf(h))}

ExtractReplies(h) == {Completion(T) : T \in ExtractTexts(h)}

ExtractHandlers ==
    {MarketAnalysis, VendorTechnologyAnalysis, MaturityAssessment, FiveYearForecast,
     SupplierQuad}

ExtractBodies(h) == {JsonBody([vendor |-> "Okta", technology |-> "Zero Trust Security"])}

NextExtract ==
    \/ Invoke(ExtractHandlers, {"POST"}, [h \in ExtractHandlers |-> ExtractBodies(h)], {FullEnv})
    \/ ParseBody
    \/ ValidateFields
    \/ CheckKey
    \/ SendRequest
    \/ FetchSettles(ExtractReplies(H))
    \/ HandleOk
    \/ Return

SpecExtract == Init /\ [][NextExtract]_vars

\* Invocations one after the other, one of them remembered: a single-call
\* handler, a handler that accumulates test results, and ea-api.
StatelessHandlers == {MarketAnalysis, ClaudeSpeedTest}
StatelessEnvs == {FullEnv, Environment(SearchKeys, Undefined)}
StatelessBodies ==
    {JsonBody([endpoint |-> "test"]),
     JsonBody([endpoint |-> "search", query |-> "zero trust market size"]),
     JsonBody([prompt |-> "Summarise zero trust."]),
     JsonBody([endpoint |-> "research", technology |-> "Zero Trust Security",
               researchPhase |-> "market"])}

\* a network error, a rate-limit error and a completion
StatelessReplies(h) ==
    {r \in SampleReplies(h) : r.kind = "rejected" \/ r.status = 429} \cup {Completion(Plain)}

NextStateless ==
    \/ Invoke(StatelessHandlers, {"POST", "DELETE"},
              [h \in StatelessHandlers |-> BodiesOf(h)], StatelessEnvs)
    \/ Invoke({EaApi}, {"POST"}, [h \in {EaApi} |-> StatelessBodies], StatelessEnvs)
    \/ MethodNotAllowed
    \/ ParseBody
    \/ ValidateFields
    \/ CheckKey
    \/ SendRequest
    \/ FetchSettles(StatelessReplies(H))
    \/ FetchRejected
    \/ HandleNotOk
    \/ HandleOk
    \/ Catch
    \/ RecordTest
    \/ Summarize
    \/ EaRoute
    \/ EaSearch
    \/ EaSearchSettles
    \/ EaSearchDone
    \/ EaCallClaude
    \/ EaClaudeSettles
    \/ EaHandled
    \/ Return
    \/ ReturnRemembered

SpecStateless == Init /\ [][NextStateless]_vars

\* the app page with its modal, its form and the stored sessions
SpecApp == Init /\ [][NextApp]_vars

\* the browser side alone
SpecClient == Init /\ [][NextClient]_vars

\* the steps the browser takes by itself: every fetch settles and every
\* continuation of an await runs; the user's clicks are left to the user
ClientProgress ==
    \/ OrchExecuteModule
    \/ OrchModuleSettles
    \/ OrchModuleStored
    \/ OrchModuleThrows
    \/ OrchAggregate
    \/ OrchCatch
    \/ ResearchSettled
    \/ AgentSearchSettles
    \/ AgentNextPhase
    \/ AgentPhaseSettles
    \/ AgentPhaseDone
    \/ AgentArtifacts
    \/ AgentComplete
    \/ AgentCatch
    \/ TechnologyResearchSettled

FairSpecClient == SpecClient /\ WF_vars(ClientProgress)

-----------------------------------------------------------------------------
\* Properties of a settled invocation.

Settled == pc = "done"

\* the request passed the method check, the body parse and the field checks
Validated ==
    /\ event.httpMethod \in H.allowed
    /\ ~(H.parsesBody /\ ParseThrows(event.body))
    /\ \A f \in H.required : Truthy(event.body.json[f])
    /\ handler = "ea-api" =>
        LET json == event.body.json
        IN  CASE RouteOf(json) = "search"   -> Truthy(json.query)
              [] RouteOf(json) = "research" -> Truthy(json.technology) /\ Truthy(json.researchPhase)
              [] RouteOf(json) = "claude"   -> Truthy(json.prompt)
              [] OTHER                      -> TRUE

HasError(body) == "error" \in DOMAIN body

\* C1: a POST without a technology value (field absent, empty string, empty
\* object, no body at all) to an analysis handler is answered 400 with an error
\* field, and no upstream request is made.
C1_MissingTechnologyIs400 ==
    (/\ Settled
     /\ H \in AnalysisHandlers
     /\ event.httpMethod = "POST"
     /\ event.body.kind # "malformed"
     /\ ~Truthy(event.body.json.technology))
    => /\ result.outcome = "resolved"
       /\ result.statusCode = 400
       /\ HasError(result.body)
       /\ fetches = <<>>

\* C2: with the API key of the handler's vendor unset, a validated request is
\* answered 500 with a message containing "not configured", and no request goes
\* to that vendor; for every handler, the ea-api Claude and research routes
\* included (a research whose searches failed never reaches the Claude call).
C2_UnsetKeyIsNotConfigured ==
    (/\ Settled
     /\ Validated
     /\ handler = "ea-api" =>
            /\ RouteOf(event.body.json) \in {"claude", "research"}
            /\ upstream.kind \in {"none", "ok"} /\ upstream.body # "notJson"
     /\ H.keyVar \notin env.set)
    => /\ result.outcome = "resolved"
       /\ result.statusCode = 500
       /\ HasError(result.body)
       /\ Includes(result.body.error, "not configured")
       /\ \A i \in 1..Len(fetches) : fetches[i].to # H.vendor

\* C3: every error raised inside a handler ends as a resolved 500 response with
\* a JSON error body; no invocation ends rejected.
C3_ErrorsBecome500 ==
    (Settled /\ thrown # "")
    => /\ result.outcome = "resolved"
       /\ result.statusCode = 500
       /\ HasError(result.body)

\* the vendor's error message appears in the error or the details of the body
CarriesMessage(body, message) ==
    \E k \in {"error", "details"} \cap DOMAIN body : Includes(body[k], message)

\* C5: when the vendor answers non-2xx, the response carries the vendor's status
\* code as its statusCode and the vendor's error message, for every handler.
C5_UpstreamErrorPassedThrough ==
    (Settled /\ upstream.kind = "notOk")
    => /\ result.outcome = "resolved"
       /\ result.statusCode = upstream.status
       /\ upstream.message # Undefined => CarriesMessage(result.body, upstream.message)

\* every key an invocation of the handler reads is set
Configured ==
    /\ H.keyVar \in env.set
    /\ handler = "ea-api" =>
        /\ SearchProvider \in {"bing", "serpapi", "brave"}
        /\ SearchKeyOf(SearchProvider) \in env.set

C7_AnalysisIsVendorText ==
    (/\ Settled
     /\ handler \in {"market-analysis", "market-analysis (Claude)"}
     /\ Validated /\ Configured
     /\ upstream.kind = "ok" /\ upstream.body = "completion")
    => /\ result.outcome = "resolved"
       /\ result.statusCode = 200
       /\ "success" \in DOMAIN result.body /\ result.body.success
       /\ "data" \in DOMAIN result.body
       /\ result.body.data.analysis = upstream.text

\* QUADRANT LOGIC of supplierQuadPrompt
QuadrantLogic(quadrant, execute, vision) ==
    CASE quadrant = "Leaders"       -> execute > 70 /\ vision > 70
      [] quadrant = "Challengers"   -> execute > 70 /\ vision >= 50 /\ vision <= 70
      [] quadrant = "Visionaries"   -> execute >= 50 /\ execute <= 70 /\ vision > 70
      [] quadrant = "Niche Players" -> execute < 70 /\ vision < 70
      [] OTHER                      -> FALSE

\* C10: every vendor record returned by supplier-quad has one of the four
\* quadrants, and the quadrant agrees with the QUADRANT LOGIC applied to its
\* abilityToExecute and completenessOfVision.
C10_QuadrantFollowsScores ==
    (Settled /\ handler = "supplier-quad" /\ "data" \in DOMAIN result.body)
    => \A k \in 1..Len(result.body.data.vendors) :
        LET vendor == result.body.data.vendors[k]
        IN  QuadrantLogic(vendor.quadrant, vendor.abilityToExecute,
                          vendor.completenessOfVision)

-----------------------------------------------------------------------------
\* Properties of the extraction.

SectionModules == {"market", "vendorTech", "maturity", "forecast"}

SectionsSpecOf(h) ==
    CASE h.module = "market"     -> MarketSections
      [] h.module = "vendorTech" -> VendorTechSections
      [] h.module = "maturity"   -> MaturitySections
      [] h.module = "forecast"   -> ForecastSections

\* the handler answered from a completion text
Extracted == Settled /\ upstream.kind = "ok" /\ upstream.body = "completion"

\* the sub-factors of the prompt for which the section gives a number
ParsedScores(section) ==
    {k \in 1..Len(SubFactors) :
        \E i \in 1..Len(section) :
            /\ StartsWithAt(section, i, SubFactors[k] \o ": ")
            /\ IsDigit(CharAt(section, i + Len(SubFactors[k]) + 2))}

AxisScoresParse(section) ==
    /\ \E i \in 1..Len(section) :
        StartsWithAt(section, i, "Execute: ") /\ IsDigit(CharAt(section, i + 9))
    /\ \E i \in 1..Len(section) :
        StartsWithAt(section, i, "Vision: ") /\ IsDigit(CharAt(section, i + 8))

\* C4: every vendor of the returned list comes from a block of the reply in
\* which at least 8 of the 12 sub-scores and both axis scores parse; a block
\* with fewer is left out and nothing is put in its place.
C4_OnlyScoredBlocksAccepted ==
    (/\ Extracted
     /\ handler = "supplier-quad"
     /\ Len(VendorSections(upstream.text)) >= 2)
    => \A k \in 1..Len(result.body.data.vendors) :
        \E i \in 1..Len(VendorSections(upstream.text)) :
            /\ VendorNameOf(VendorSections(upstream.text)[i]) = result.body.data.vendors[k].name
            /\ Cardinality(ParsedScores(VendorSections(upstream.text)[i])) >= 8
            /\ AxisScoresParse(VendorSections(upstream.text)[i])

\* the content without the "..." appended to it
Quoted(content) == SubSeq(content, 1, Len(content) - 3)

\* C8: when the reply contains every **HEADER** the module's prompt asks for,
\* every section of the module's web summary is a non-empty text taken from the
\* reply, not the placeholder.
C8_AllHeadersAllSections ==
    (/\ Extracted
     /\ H.module \in SectionModules
     /\ \A k \in 1..Len(PromptOf(H)) : HasHeader(upstream.text, PromptOf(H)[k]))
    => \A i \in 1..Len(result.body.artifacts.webSummary.sections) :
        LET content == result.body.artifacts.webSummary.sections[i].content
        IN  /\ content # Placeholder
            /\ Quoted(content) # ""
            /\ Includes(upstream.text, Quoted(content))

\* the reply has none of the headers of the prompt or of the extractor, and, for
\* the quadrant, neither a bold name nor a numbered entry
Patternless(h, text) ==
    IF h.module = "quad"
    THEN \A i \in 1..Len(text) : ~BoldAt(text, i) /\ ~NumberedAt(text, i)
    ELSE /\ \A k \in 1..Len(PromptOf(h)) :
            ~Includes(ToLowerCase(text), "**" \o ToLowerCase(PromptOf(h)[k]) \o "**")
         /\ \A k \in 1..Len(SectionsSpecOf(h)) :
            ~Includes(ToLowerCase(text), "**" \o ToLowerCase(SectionsSpecOf(h)[k][2]) \o "**")

FallbackNames ==
    {"Zscaler", "Palo Alto Networks", "CrowdStrike", "Microsoft", "Cisco", "Okta",
     "SentinelOne", "Fortinet", "Splunk", "Datadog", "New Relic", "Dynatrace",
     "AppDynamics", "Moogsoft", "BigPanda", "Vendor A", "Vendor B", "Vendor C", "Vendor D"}

\* C9: a reply without any of the expected headers or vendor patterns is still
\* answered 200 with success true and every key present: the section list is
\* complete with the placeholder as content, the quadrant's vendor list is the
\* hardcoded fallback set. Nothing is thrown.
C9_PatternlessReplyStillSucceeds ==
    (/\ Extracted
     /\ H.module \in SectionModules \cup {"quad"}
     /\ Patternless(H, upstream.text))
    => /\ thrown = ""
       /\ result.outcome = "resolved"
       /\ result.statusCode = 200
       /\ result.body.success
       /\ result.body.data.analysis = upstream.text
       /\ IF H.module = "quad"
          THEN /\ {"vendors", "chartData", "webSummary", "metadata"} \subseteq DOMAIN result.body.data
               /\ Len(result.body.data.vendors) > 0
               /\ \A k \in 1..Len(result.body.data.vendors) :
                    result.body.data.vendors[k].name \in FallbackNames
               /\ Len(result.body.data.chartData.data) = Len(result.body.data.vendors)
          ELSE /\ {"summary", "technology"} \subseteq DOMAIN result.body.data
               /\ Len(result.body.artifacts.webSummary.sections) = Len(SectionsSpecOf(H))
               /\ \A i \in 1..Len(SectionsSpecOf(H)) :
                    /\ result.body.artifacts.webSummary.sections[i].title = SectionsSpecOf(H)[i][1]
                    /\ result.body.artifacts.webSummary.sections[i].content = Placeholder

\* a patternless reply went through a section module and through the quadrant
C9_Witness ==
    /\ Extracted
    /\ Patternless(H, upstream.text)
    /\ upstream.text # ""
    /\ \/ H.module = "forecast" /\ result.statusCode = 200
       \/ H.module = "quad" /\ result.statusCode = 200

-----------------------------------------------------------------------------
\* Properties of the responses.

Returned == Settled /\ result.outcome = "resolved"

\* C11: every response a handler returns, on every path, carries the header
\* Access-Control-Allow-Origin: *.
C11_EveryResponseAllowsAnyOrigin ==
    Returned =>
        /\ "Access-Control-Allow-Origin" \in DOMAIN result.headers
        /\ result.headers["Access-Control-Allow-Origin"] = "*"

\* a caught exception was answered 500 by supplier-quad or ea-api
C11_Witness ==
    /\ Returned
    /\ handler \in {"supplier-quad", "ea-api"}
    /\ thrown # ""
    /\ result.statusCode = 500
    /\ result.headers["Access-Control-Allow-Origin"] = "*"

\* C12: the body of every response other than the preflight's is a JSON object
\* with a boolean success, with data when success is true and error when it is
\* false (400, 405 and key-not-configured responses included).
C12_BodyIsSuccessEnvelope ==
    (Returned /\ event.httpMethod # "OPTIONS") =>
        /\ "success" \in DOMAIN result.body
        /\ result.body.success \in BOOLEAN
        /\ result.body.success => "data" \in DOMAIN result.body
        /\ ~result.body.success => "error" \in DOMAIN result.body

\* the methods a handler advertises in Access-Control-Allow-Methods
Advertised(h) == {m \in Methods : Includes(AllowMethods(h), m)}

\* C13: an OPTIONS request is answered 200 with an empty body, and a method
\* outside the handler's advertised Access-Control-Allow-Methods is answered 405
\* 'Method not allowed'; in both cases nothing was parsed or thrown and no
\* upstream request was made.
C13_PreflightAndMethodCheck ==
    Settled =>
        /\ event.httpMethod = "OPTIONS" =>
            /\ result.outcome = "resolved"
            /\ result.statusCode = 200
            /\ result.body = [text |-> ""]
            /\ fetches = <<>> /\ thrown = ""
        /\ event.httpMethod \notin Advertised(H) =>
            /\ result.outcome = "resolved"
            /\ result.statusCode = 405
            /\ result.body = [error |-> "Method not allowed"]
            /\ fetches = <<>> /\ thrown = ""

-----------------------------------------------------------------------------
\* Properties of a research run in the browser.

\* the names of the first n modules, in the order of analysisModules
ModuleNames(n) == [i \in 1..n |-> analysisModules[i].name]

\* the run of the orchestrator has failed: its catch block has run
OrchFailed == orch.status = "failed"

\* C14: the orchestrator calls its modules one after the other in the order
\* market-analysis, vendor-analysis, maturity-assessment, 5-year-forecast: the
\* requests of a run are the first modules of that order, at most four, the
\* request for a module is issued only when every module before it is stored,
\* and a reply that is not accepted (non-2xx, success false, network error,
\* unreadable body) takes the run to status 'failed' without another request.
C14_SequentialFailFast ==
    /\ [](/\ Len(orch.requests) <= Len(analysisModules)
          /\ orch.requests = ModuleNames(Len(orch.requests))
          /\ orch.modules = ModuleNames(Len(orch.modules))
          /\ Len(orch.modules) = orch.currentModuleIndex
          /\ Len(orch.requests) \in {Len(orch.modules), Len(orch.modules) + 1}
          /\ (orch.pc \in {"loop", "idle"} /\ ~OrchFailed
                => Len(orch.requests) = Len(orch.modules))
          /\ (OrchFailed => orch.pc \in {"done", "idle"}))
    /\ [][orch' # orch =>
            /\ (orch.pc = "settled" /\ ~ReplyAccepted(orch.reply)
                  => orch'.pc = "catch" /\ orch'.requests = orch.requests)
            /\ (orch.pc = "catch"
                  => OrchFailed' /\ orch'.pc = "done" /\ orch'.requests = orch.requests)
            /\ (orch.pc = "done" => orch'.requests = orch.requests)
            /\ (Len(orch'.requests) > Len(orch.requests)
                  => orch.pc = "loop" /\ ~OrchFailed)]_vars

\* the third module failed after two were stored
C14_Witness ==
    /\ OrchFailed
    /\ orch.modules = ModuleNames(2)
    /\ orch.requests = ModuleNames(3)
    /\ orch.reply.kind = "notOk"

\* conductResearch has thrown into its catch block: the run fails
RunFails == orch.pc = "catch" \/ agent.pc = "catch"

\* a request of the run got a reply that callAPI or executeModule refuses
RequestFailed ==
    \/ orch.pc = "settled" /\ ~ReplyAccepted(orch.reply)
    \/ agent.pc = "settled" /\ ~ReplyAccepted(agent.reply)
    \/ agent.searchFailed

\* the run is over, the progress view is left, an error panel or toast is
\* shown and the run can be started again by hand
ErrorShown ==
    /\ orch.pc = "idle"
    /\ agent.pc = "idle"
    /\ ui.view \in {"error", "form"}
    /\ ui.notice # ""
    /\ ~ui.isResearchActive
    /\ ENABLED (resetInterface \/ startTechnologyResearch)

\* C15: when a run fails (conductResearch throws into its catch block) and
\* every fetch settles, the page eventually shows the error panel or toast
\* with the run startable again; and no page is left in the progress view or
\* with isResearchActive set once its run is over.
C15_FailureLeadsToRetry ==
    /\ RunFails ~> ErrorShown
    /\ [](orch.pc = "idle" /\ agent.pc = "idle"
            => ui.view # "progress" /\ ~ui.isResearchActive)

\* the error panel of the interface after a module failed
C15_Witness ==
    /\ ErrorShown
    /\ ui.page = "interface"
    /\ OrchFailed
    /\ Len(orch.requests) = 1

\* C15 as stated: any failed module or phase request leads to the error display
C15_AnyFailedRequestShowsError == RequestFailed ~> ErrorShown

\* the position of a phase in the order of conductResearch
PhaseIndex(phase) == CHOOSE i \in 1..Len(AgentPhases) : AgentPhases[i] = phase

\* C20: the phases of TechnologyResearchAgent.conductResearch start in the
\* order web search, market, vendor, hype cycle, strategic, artifacts, a phase
\* only after every phase started before it is over; the percentages reported
\* are 0 and then the percentage of each finished phase (20, 40, 60, 80, 90,
\* 100), never decreasing, and 100 is reported only after the artifacts are
\* generated.
C20_PhasesInOrder ==
    /\ \A i, j \in 1..Len(agent.started) :
          i < j => PhaseIndex(agent.started[i]) < PhaseIndex(agent.started[j])
    /\ Len(agent.started) \in {Len(agent.finished), Len(agent.finished) + 1}
    /\ agent.finished = SubSeq(agent.started, 1, Len(agent.finished))
    /\ agent.pc # "idle" =>
          agent.progress =
            <<0>> \o [i \in 1..Len(agent.finished) |-> PhasePercent(agent.finished[i])]
    /\ \A i, j \in 1..Len(agent.progress) :
          i < j => agent.progress[i] <= agent.progress[j]
    /\ (\E i \in 1..Len(agent.progress) : agent.progress[i] = 100)
          => agent.finished[Len(agent.finished)] = "artifacts"

\* a run with every phase, completed
C20_Witness ==
    /\ agent.outcome = "resolved"
    /\ agent.progress = <<0, 20, 40, 60, 80, 90, 100>>
    /\ agent.finished = AgentPhases

-----------------------------------------------------------------------------
\* Properties of the ea-api function.

\* an ea-api POST whose body parsed has been dispatched by the switch
EaDispatched ==
    /\ handler = "ea-api"
    /\ event.httpMethod = "POST"
    /\ event.body.kind = "object"
    /\ pc \notin {"entry", "route"}

\* the invocation is answered 400 with this message and made no upstream request
Refused(message) ==
    /\ Returned
    /\ result.statusCode = 400
    /\ result.body = [error |-> message]
    /\ fetches = <<>>

\* every upstream request made so far goes to one of these services
RequestsOnlyTo(services) == \A i \in 1..Len(fetches) : fetches[i].to \in services

\* the error label of the catch block of a handle* function, when answering 500
CaughtBy(label) ==
    Returned /\ result.statusCode = 500 => StartsWithAt(result.body.error, 1, label)

\* C17: ea-api dispatches on the endpoint of the body: 'test' is answered by
\* the connection test, 'search' by the web search, 'research' by the enhanced
\* research, and 'claude', any other value and a missing endpoint by the Claude
\* handler; a search without query, a research without technology or without
\* researchPhase and a Claude request without prompt are answered 400 before
\* any upstream request.
C17_DispatchAndRequiredFields ==
    EaDispatched =>
        LET json == event.body.json
        IN  CASE json.endpoint = "test" ->
                    /\ Returned
                    /\ result.statusCode = 200
                    /\ "capabilities" \in DOMAIN result.body
                    /\ fetches = <<>>
              [] json.endpoint = "search" ->
                    IF ~Truthy(json.query) THEN Refused("Search query is required")
                    ELSE /\ RequestsOnlyTo({"bing", "serpapi", "brave"})
                         /\ CaughtBy("Web search failed: ")
                         /\ Returned => result.statusCode \in {200, 500}
              [] json.endpoint = "research" ->
                    IF ~Truthy(json.technology) \/ ~Truthy(json.researchPhase)
                    THEN Refused("Technology and research phase are required")
                    ELSE /\ RequestsOnlyTo({"bing", "serpapi", "brave", "anthropic"})
                         /\ CaughtBy("Enhanced research failed: ")
                         /\ Returned => result.statusCode \in {200, 500}
              [] OTHER ->
                    IF ~Truthy(json.prompt) THEN Refused("Prompt is required")
                    ELSE /\ RequestsOnlyTo({"anthropic"})
                         /\ CaughtBy("Claude API failed: ")
                         /\ Returned => result.statusCode \in {200, 500}

\* a body with an endpoint the switch does not know, answered by Claude
C17_Witness ==
    /\ EaDispatched
    /\ event.body.json.endpoint = "chat"
    /\ Returned
    /\ result.statusCode = 200
    /\ "content" \in DOMAIN result.body
    /\ Len(fetches) = 1

\* the invocation has sent a request to the Claude API
ClaudeCalled == \E i \in 1..Len(fetches) : fetches[i].to = "anthropic"

\* an ea-api research request with both required fields
EaResearch ==
    /\ EaDispatched
    /\ event.body.json.endpoint = "research"
    /\ Truthy(event.body.json.technology)
    /\ Truthy(event.body.json.researchPhase)

\* C18: in a research request Claude is called only when every web search of
\* the phase has resolved; when a search fails (provider key unset, provider
\* unsupported, network error, non-2xx or unreadable response) the request is
\* answered 500 and Claude is not called.
C18_ClaudeOnlyAfterAllSearches ==
    EaResearch =>
        /\ ClaudeCalled => searchResults = QueriesPerPhase
        /\ (pc \in {"handled", "done"} /\ searchResults < QueriesPerPhase)
              => /\ ~ClaudeCalled
                 /\ Returned => result.statusCode = 500

\* the third search of a research fails after two have resolved
C18_Witness ==
    /\ EaResearch
    /\ Returned
    /\ searchResults = QueriesPerPhase - 1
    /\ Len(fetches) = QueriesPerPhase
    /\ result.statusCode = 500
    /\ upstream.kind = "notOk"

\* the invocation answered with an error saying that an API key is not configured
KeyNotConfigured ==
    /\ EaDispatched
    /\ Returned
    /\ HasError(result.body)
    /\ Includes(result.body.error, "key not configured")

\* C19: under an environment for which the connection test reports the search
\* (the claude) capability, no search (Claude) request fails because an API
\* key is not configured.
C19_CapabilityImpliesKey ==
    KeyNotConfigured =>
        IF Includes(result.body.error, "Claude")
        THEN ~Capabilities.claude
        ELSE ~Capabilities.search

-----------------------------------------------------------------------------
\* Independence of the invocations.

\* the invocation at hand was given what the remembered one was given
SameAsEarlier ==
    /\ earlier.set
    /\ Settled
    /\ earlier.handler = handler
    /\ earlier.event = event
    /\ earlier.env = env
    /\ earlier.replies = replies

-----------------------------------------------------------------------------
\* Error handling of TechnologyResearchAgent.

\* the reply of an analysis phase was refused, or the artifacts threw: the run
\* is in, or went through, the catch block of conductResearch
AgentAborted == agent.pc = "catch" \/ agent.outcome = "rejected"

\* C21: a failed web search is swallowed: the run goes on with empty
\* searchData, even when other searches of the four succeeded, and the four
\* results are stored only when all succeeded. A failed analysis phase or
\* artifact generation aborts the run: the phase that failed is the last one
\* started, conductResearch rejects, and nothing is saved to the history. The
\* history entry is saved only when every enabled phase is over.
C21_SearchSwallowedAnalysisAborts ==
    /\ [](/\ (\E i \in 1..Len(agent.finished) : agent.finished[i] = "search")
                => agent.searchData = IF agent.searchFailed THEN {} ELSE SearchTypes
          /\ (agent.pc = "searching" => agent.searchData = {} /\ ~agent.searchFailed)
          /\ AgentAborted
                => /\ Len(agent.started) = Len(agent.finished) + 1
                   /\ agent.started[Len(agent.started)] # "search"
                   /\ ~agent.saved
                   /\ agent.error # ""
          /\ agent.saved
                => /\ agent.outcome = "resolved"
                   /\ \A i \in 1..Len(AgentPhases) :
                        Included(agent.options, AgentPhases[i])
                            => \E j \in 1..Len(agent.finished) :
                                    agent.finished[j] = AgentPhases[i])
    /\ [][/\ (agent.pc = "settled" /\ ~ReplyAccepted(agent.reply) /\ agent'.pc # agent.pc
                => agent'.pc = "catch")
          /\ (agent.pc = "catch" /\ agent'.pc # agent.pc
                => agent'.outcome = "rejected")
          /\ (AgentAborted /\ AgentAborted'
                => agent'.started = agent.started /\ agent'.requests = agent.requests)]_agent

\* two searches had succeeded when a third failed, the fourth still in flight:
\* nothing is stored and the run goes on to the market analysis
C21_Witness ==
    /\ agent.pc = "await"
    /\ agent.searchFailed
    /\ Cardinality(agent.pending) = 1
    /\ agent.searchData = {}
    /\ agent.finished = <<"search">>
    /\ agent.started = <<"search", "market">>

-----------------------------------------------------------------------------
\* The include* options of a run.

\* the run of the orchestrator has requested this module
OrchRequested(name) == \E i \in 1..Len(orch.requests) : orch.requests[i] = name

\* C22: a run makes no request for an analysis whose include option is false,
\* whether window.technologyResearch is the agent or the orchestrator.
C22_OnlySelectedRequested ==
    /\ \A i \in 1..Len(agent.requests) : Included(agent.options, agent.requests[i])
    /\ OrchRequested("market-analysis") => orch.options.includeMarketResearch
    /\ OrchRequested("vendor-analysis") => orch.options.includeVendorAnalysis



\* ---------------------------------------------------------------------------
\* C23: through TechnologyResearchInterface at most one run is in flight:
\* startResearch calls conductResearch only while isResearchActive is false
\* and no earlier run is unsettled, isResearchActive is true for as long as
\* the run it started is unsettled, and it is false again once the run has
\* settled, resolved or rejected.
RunStarts == orch' # orch /\ orch'.pc = "loop" /\ orch'.requests = <<>>

C23_OneRunInFlight ==
    /\ [](ui.page = "interface" => (ui.isResearchActive <=> orch.pc # "idle"))
    /\ [][ui.page = "interface" =>
            /\ RunStarts => ~ui.isResearchActive /\ orch.pc = "idle"
                             /\ ui'.isResearchActive
            /\ orch.pc = "done" /\ orch'.pc = "idle" => ~ui'.isResearchActive]_vars

\* a run started through the interface is in flight while the field is still
\* part of the page, so that startResearch can be called again
C23_Witness ==
    /\ ui.page = "interface"
    /\ ui.isResearchActive
    /\ InputExists
    /\ orch.pc = "await"
    /\ Len(orch.requests) = 2


\* ---------------------------------------------------------------------------
\* C25: no research run is started and no backend request is sent for a
\* technology area that is empty or shorter than 3 characters after trimming,
\* whichever entry point starts the run.
C25_NoRunForShortTechnology ==
    /\ orch.outcome # "none" => Len(orch.technology) >= MinTechnologyLength
    /\ agent.outcome # "none" => Len(agent.technology) >= MinTechnologyLength
    /\ orch.requests # <<>> => Len(orch.technology) >= MinTechnologyLength
    /\ agent.requests # <<>> => Len(agent.technology) >= MinTechnologyLength


\* ---------------------------------------------------------------------------
\* C24: one submit event of the form 'research-form' starts one research run:
\* with the listeners of EAAssistant and of ResearchInterface both registered,
\* no two conductResearch calls of the same submit event are pending together
\* on the one currentResearch of window.technologyResearch.
C24_OneRunPerSubmit ==
    \A i, j \in 1..Len(app.calls) :
        i < j /\ app.calls[i].submit = app.calls[j].submit =>
            ~(app.calls[i].pc = "await" /\ app.calls[j].pc = "await")

\* ---------------------------------------------------------------------------
\* C26: the stored session list has at most 20 entries, newest first, one
\* entry per session id, and the stored entry of a startResearch call that has
\* settled is 'completed' or 'failed', never 'running', also when runs overlap.
StoredBounded == Len(app.stored) <= SessionLimit

StoredNewestFirst ==
    \A k, l \in 1..Len(app.stored) : k < l => app.stored[k].id > app.stored[l].id

SettledSessionsClosed ==
    \A i \in 1..Len(app.calls) :
        app.calls[i].caller = "ResearchInterface" /\ app.calls[i].pc = "settled" =>
            \A k \in 1..Len(app.stored) :
                app.stored[k].id = app.calls[i].session =>
                    app.stored[k].status \in {"completed", "failed"}

C26_StoredSessions == StoredBounded /\ StoredNewestFirst /\ SettledSessionsClosed

\* ---------------------------------------------------------------------------
\* C27: from openAgent until the next closeModal the modal body holds the
\* interface of the opened agent: the timer of an earlier closeModal does not
\* empty a modal that was opened again.
C27_OpenModalHoldsInterface == app.modalActive => app.modalBody = "technology-research"


\* ---------------------------------------------------------------------------
\* C28: for any completion text the vendor list supplier-quad returns is not
\* empty and has at most 12 entries; every entry has a name, one of the four
\* quadrants, both axis scores and exactly 12 sub-scores; the chart data has
\* exactly one point per returned vendor, with x its completenessOfVision and
\* y its abilityToExecute.
Quadrants == {"Leaders", "Challengers", "Visionaries", "Niche Players"}

\* the point is the chart's point of the vendor
PointOf(point, vendor) ==
    /\ point.label = vendor.name
    /\ point.x = vendor.completenessOfVision
    /\ point.y = vendor.abilityToExecute

C28_VendorListWellFormed ==
    (Extracted /\ handler = "supplier-quad")
    => LET vendors == result.body.data.vendors
           points == result.body.data.chartData.data
       IN  /\ Len(vendors) > 0
           /\ Len(vendors) <= MaxVendors
           /\ \A k \in 1..Len(vendors) :
                /\ {"name", "quadrant", "abilityToExecute", "completenessOfVision",
                    "scores"} \subseteq DOMAIN vendors[k]
                /\ vendors[k].name # ""
                /\ vendors[k].quadrant \in Quadrants
                /\ vendors[k].abilityToExecute \in Int
                /\ vendors[k].completenessOfVision \in Int
                /\ Cardinality(DOMAIN vendors[k].scores) = Len(SubFactors)
                /\ \A f \in DOMAIN vendors[k].scores : vendors[k].scores[f] \in Int
           /\ Len(points) = Len(vendors)
           /\ \A k \in 1..Len(vendors) :
                Cardinality({i \in 1..Len(points) : PointOf(points[i], vendors[k])})
                    = Cardinality({j \in 1..Len(vendors) :
                                    /\ vendors[j].name = vendors[k].name
                                    /\ vendors[j].completenessOfVision
                                            = vendors[k].completenessOfVision
                                    /\ vendors[j].abilityToExecute
                                            = vendors[k].abilityToExecute})

\* a reply with thirteen vendor blocks was answered with twelve vendors, the
\* list sorted into another order than the chart's points
C28_Witness ==
    /\ Extracted
    /\ handler = "supplier-quad"
    /\ upstream.text = CrowdedText
    /\ Len(result.body.data.vendors) = MaxVendors
    /\ result.body.data.vendors[1].name # result.body.data.chartData.data[1].label

====
